---- MODULE Spec2Model ----
(***************************************************************************)
(* The DBF table codec of scripts/dbf_polars_handler.py: the field         *)
(* descriptor codec (DBFFieldDescriptor), the table reader (DBFReader),    *)
(* the table writer (DBFWriter) and the fallback reader                    *)
(* (read_dbf_alternative).                                                 *)
(*                                                                         *)
(* Bytes are the integers 0..255; a bytes object and a str are both a      *)
(* sequence of integers (byte values, respectively code points).  A file   *)
(* is the sequence of its bytes.  A call that raises is a record whose     *)
(* exc field names the exception; exc = "none" is a normal return.         *)
(***************************************************************************)
EXTENDS Integers, Sequences, FiniteSets, TLC

VARIABLES
    disk,    \* the table file on disk: its bytes, <<>> before any file exists
    origin,  \* who produced disk: "none", "writer" or "foreign"
    wr,      \* the last DBFWriter.write call: its table, descriptors and outcome
    rd,      \* the DBFReader object and the outcome of its last read()
    alt,     \* the outcome of the last read_dbf_alternative()
    codec,   \* the last DBFFieldDescriptor.to_bytes / from_bytes exercise
    conv,    \* the last per-value conversion exercise
    rdbf,    \* the read_dbf call: its try block, its handler, what it returned
    cdx      \* the CDXReader object and the outcome of its last read()

vars == <<disk, origin, wr, rd, alt, codec, conv, rdbf, cdx>>

----------------------------------------------------------------------------
(* Bounds of the model.                                                    *)

MaxCols == 3      \* columns of a table handed to the writer
MaxRows == 2      \* rows of a table handed to the writer
MaxFields == 2    \* field descriptors of a foreign file
MaxRecs == 2      \* data records of a foreign file
MaxReads == 2     \* calls of read on one index reader

----------------------------------------------------------------------------
(* Python's bytes and str primitives.                                      *)

Min(a, b) == IF a < b THEN a ELSE b
Max(a, b) == IF a > b THEN a ELSE b

Repeat(b, n) == [i \in 1..n |-> b]

\* s[a:b] for 0 <= a
Slice(s, a, b) ==
    IF a >= Min(b, Len(s)) THEN <<>> ELSE SubSeq(s, a + 1, Min(b, Len(s)))

\* s[a:]
SliceFrom(s, a) == Slice(s, a, Len(s))

\* s.ljust(n, c)
ljust(s, n, c) == IF Len(s) >= n THEN s ELSE s \o Repeat(c, n - Len(s))

\* s.rjust(n, c), the ">" alignment of format()
rjust(s, n, c) == IF Len(s) >= n THEN s ELSE Repeat(c, n - Len(s)) \o s

RECURSIVE rstripSet(_, _)
rstripSet(s, cs) ==
    IF s # <<>> /\ s[Len(s)] \in cs THEN rstripSet(SubSeq(s, 1, Len(s) - 1), cs) ELSE s

RECURSIVE lstripSet(_, _)
lstripSet(s, cs) ==
    IF s # <<>> /\ s[1] \in cs THEN lstripSet(Tail(s), cs) ELSE s

\* the code points below 256 for which str.isspace() is true
Whitespace == {9, 10, 11, 12, 13, 28, 29, 30, 31, 32, 133, 160}

\* str.strip()
strip(s) == lstripSet(rstripSet(s, Whitespace), Whitespace)

\* str.rstrip("\x00") and bytes.rstrip(b"\x00")
rstripNul(s) == rstripSet(s, {0})

IsAscii(s) == \A i \in 1..Len(s) : s[i] < 128

\* bytes.decode("ascii", errors="ignore")
RECURSIVE decodeIgnore(_)
decodeIgnore(s) ==
    IF s = <<>> THEN <<>>
    ELSE IF s[1] < 128 THEN <<s[1]>> \o decodeIgnore(Tail(s))
    ELSE decodeIgnore(Tail(s))

\* str.encode("ascii", errors="replace"): "?" for every non-ASCII character
encodeReplace(s) == [i \in 1..Len(s) |-> IF s[i] < 128 THEN s[i] ELSE 63]

\* str.upper() of a one-character str, as a str (the sharp s becomes "SS")
upperChar(c) ==
    IF c \in 97..122 THEN <<c - 32>>
    ELSE IF c \in (224..254) \ {247} THEN <<c - 32>>
    ELSE IF c = 181 THEN <<924>>
    ELSE IF c = 255 THEN <<376>>
    ELSE IF c = 223 THEN <<83, 83>>
    ELSE <<c>>

RECURSIVE upper(_)
upper(s) == IF s = <<>> THEN <<>> ELSE upperChar(s[1]) \o upper(Tail(s))

\* str.isprintable() over the code points below 256
Printable(c) == c \in 32..126 \/ c \in (161..255) \ {173}
isprintable(s) == \A i \in 1..Len(s) : Printable(s[i])

\* struct.pack of an "<n>s" item: truncated or null-padded to n bytes
pack_s(s, n) == ljust(Slice(s, 0, n), n, 0)

\* struct.pack of little-endian unsigned items ("B", "H", "L"); the value fits
pack_B(v) == <<v>>
pack_H(v) == <<v % 256, v \div 256>>
pack_L(v) == <<v % 256, (v \div 256) % 256, (v \div 65536) % 256, v \div 16777216>>

\* struct.unpack("<H", b)[0] and struct.unpack("<L", b)[0]
unpack_H(b) == b[1] + 256 * b[2]
unpack_L(b) == b[1] + 256 * b[2] + 65536 * b[3] + 16777216 * b[4]

\* the characters the model's texts are made of
NUL == 0
SP == 32
STAR == 42
TERMINATOR == 13
EOF_MARK == 26

Ok(v) == [exc |-> "none", val |-> v]
Raise(e) == [exc |-> e]

----------------------------------------------------------------------------
(* DBFFieldDescriptor: the schema codec.                                   *)

TypeC == <<67>>
TypeN == <<78>>
TypeF == <<70>>
TypeL == <<76>>
TypeD == <<68>>
TypeM == <<77>>

\* __init__: the name is cut to 10 characters and null-padded to 11
DBFFieldDescriptor(name, field_type, length, decimal_count) ==
    [name |-> ljust(Slice(name, 0, 10), 11, NUL),
     field_type |-> upper(field_type),
     length |-> length,
     decimal_count |-> decimal_count]

\* struct.pack("<11sBBBB15sB", name, ord(type), length, decimal_count, 0, zeros, 0)
to_bytes(d) ==
    IF ~IsAscii(d.name) THEN Raise("UnicodeEncodeError")
    ELSE IF Len(d.field_type) # 1 THEN Raise("TypeError")
    ELSE IF d.field_type[1] > 255 \/ d.length \notin 0..255
            \/ d.decimal_count \notin 0..255 THEN Raise("struct.error")
    ELSE Ok(pack_s(d.name, 11) \o pack_B(d.field_type[1]) \o pack_B(d.length)
            \o pack_B(d.decimal_count) \o pack_B(0) \o pack_s(<<>>, 15) \o pack_B(0))

\* from_bytes: name in bytes 0-10, type in byte 11, length in 16, decimals in 17
from_bytes(data) ==
    IF Len(data) < 32 THEN Raise("ValueError")
    ELSE IF ~IsAscii(rstripNul(Slice(data, 0, 11))) THEN Raise("UnicodeDecodeError")
    ELSE Ok(DBFFieldDescriptor(rstripNul(Slice(data, 0, 11)), <<data[12]>>,
                               data[17], data[18]))

----------------------------------------------------------------------------
(* Typed cell values, and Python's int(), float() and datetime.date().     *)
(* A float is the decimal number mant * 10^exp with mant free of trailing  *)
(* zeros (the value float() gives a text of at most 15 significant         *)
(* digits, up to the sign of zero), or an infinity, or a nan.              *)

None == [t |-> "None"]
StrVal(s) == [t |-> "str", s |-> s]
IntVal(i) == [t |-> "int", i |-> i]
BoolVal(b) == [t |-> "bool", b |-> b]
DateVal(y, m, d) == [t |-> "date", y |-> y, m |-> m, d |-> d]
InfVal(neg) == [t |-> "float", inf |-> IF neg THEN -1 ELSE 1]
NanVal == [t |-> "float", nan |-> TRUE]

RECURSIVE FloatVal(_, _)
FloatVal(mant, exp) ==
    IF mant = 0 THEN [t |-> "float", mant |-> 0, exp |-> 0]
    ELSE IF mant % 10 = 0 THEN FloatVal(mant \div 10, exp + 1)
    ELSE [t |-> "float", mant |-> mant, exp |-> exp]

\* a local variable of the code: v is bound once, F is the code that uses it
Let(v, F(_)) == F(v)

\* the white space int() and float() skip around a number
NumWhitespace == {9, 10, 11, 12, 13, 32, 133, 160}

IsDigit(c) == c \in 48..57

\* str.isdigit() of an ASCII str
isdigit(s) == s # <<>> /\ \A i \in 1..Len(s) : IsDigit(s[i])

\* decimal digits, single underscores allowed between two digits
RECURSIVE DigitsOk(_)
DigitsOk(s) ==
    /\ s # <<>>
    /\ IsDigit(s[1])
    /\ \/ Len(s) = 1
       \/ IF s[2] = 95 THEN Len(s) >= 3 /\ DigitsOk(SliceFrom(s, 2))
          ELSE DigitsOk(Tail(s))

RECURSIVE DigitsVal(_, _)
DigitsVal(s, acc) ==
    IF s = <<>> THEN acc
    ELSE IF s[1] = 95 THEN DigitsVal(Tail(s), acc)
    ELSE DigitsVal(Tail(s), 10 * acc + (s[1] - 48))

RECURSIVE DigitCount(_)
DigitCount(s) ==
    IF s = <<>> THEN 0
    ELSE (IF s[1] = 95 THEN 0 ELSE 1) + DigitCount(Tail(s))

IsSign(c) == c \in {43, 45}

Unsigned(s) == IF s # <<>> /\ IsSign(s[1]) THEN Tail(s) ELSE s
Negative(s) == s # <<>> /\ s[1] = 45

\* int(s) of a str
int_str(s) ==
    Let(lstripSet(rstripSet(s, NumWhitespace), NumWhitespace), LAMBDA t :
    Let(Unsigned(t), LAMBDA u :
        IF DigitsOk(u)
        THEN Ok(IntVal((IF Negative(t) THEN -1 ELSE 1) * DigitsVal(u, 0)))
        ELSE Raise("ValueError")))

\* the position of the first element of s in cs, 0 when there is none
RECURSIVE FindFrom(_, _, _)
FindFrom(s, cs, i) ==
    IF i > Len(s) THEN 0 ELSE IF s[i] \in cs THEN i ELSE FindFrom(s, cs, i + 1)

lowerAscii(s) == [i \in 1..Len(s) |-> IF s[i] \in 65..90 THEN s[i] + 32 ELSE s[i]]

Word_inf == <<105, 110, 102>>
Word_infinity == <<105, 110, 102, 105, 110, 105, 116, 121>>
Word_nan == <<110, 97, 110>>

\* float(s) of a str
float_str(s) ==
    Let(lstripSet(rstripSet(s, NumWhitespace), NumWhitespace), LAMBDA t :
    Let(Unsigned(t), LAMBDA u :
    Let(FindFrom(u, {101, 69}, 1), LAMBDA epos :
    Let(IF epos = 0 THEN u ELSE SubSeq(u, 1, epos - 1), LAMBDA mpart :
    Let(IF epos = 0 THEN <<>> ELSE SubSeq(u, epos + 1, Len(u)), LAMBDA epart :
    Let(FindFrom(mpart, {46}, 1), LAMBDA dot :
    Let(IF dot = 0 THEN mpart ELSE SubSeq(mpart, 1, dot - 1), LAMBDA ip :
    Let(IF dot = 0 THEN <<>> ELSE SubSeq(mpart, dot + 1, Len(mpart)), LAMBDA fp :
    Let(Unsigned(epart), LAMBDA ed :
    Let(lowerAscii(u), LAMBDA word :
        IF word \in {Word_inf, Word_infinity} THEN Ok(InfVal(Negative(t)))
        ELSE IF word = Word_nan THEN Ok(NanVal)
        ELSE IF (ip = <<>> \/ DigitsOk(ip)) /\ (fp = <<>> \/ DigitsOk(fp))
                /\ (ip # <<>> \/ fp # <<>>) /\ (epos = 0 \/ DigitsOk(ed))
        THEN Ok(FloatVal((IF Negative(t) THEN -1 ELSE 1) * DigitsVal(ip \o fp, 0),
                         (IF epos = 0 THEN 0
                          ELSE (IF Negative(epart) THEN -1 ELSE 1) * DigitsVal(ed, 0))
                         - DigitCount(fp)))
        ELSE Raise("ValueError")))))))))))

IsLeap(y) == y % 4 = 0 /\ (y % 100 # 0 \/ y % 400 = 0)

DaysInMonth(y, m) ==
    IF m = 2 THEN (IF IsLeap(y) THEN 29 ELSE 28)
    ELSE IF m \in {4, 6, 9, 11} THEN 30
    ELSE 31

MINYEAR == 1
MAXYEAR == 9999

\* datetime.date(year, month, day)
date(y, m, d) ==
    IF y \in MINYEAR..MAXYEAR /\ m \in 1..12 /\ d \in 1..DaysInMonth(y, m)
    THEN Ok(DateVal(y, m, d))
    ELSE Raise("ValueError")

----------------------------------------------------------------------------
(* Per-value conversion.                                                   *)

Txt_T == <<84>>
Txt_Y == <<89>>
Txt_1 == <<49>>

\* the date branch shared by both converters: three int() calls, then date()
DateOf(data_str) ==
    Let(int_str(Slice(data_str, 0, 4)), LAMBDA year :
        IF year.exc # "none" THEN year
        ELSE Let(int_str(Slice(data_str, 4, 6)), LAMBDA month :
        IF month.exc # "none" THEN month
        ELSE Let(int_str(Slice(data_str, 6, 8)), LAMBDA day :
        IF day.exc # "none" THEN day
        ELSE date(year.val.i, month.val.i, day.val.i))))

\* DBFReader._convert_field_value: bytes decode to the same code points as
\* ASCII and, on failure, as latin-1
_convert_field_value(data, field_type, decimal_count) ==
    Let(strip(data), LAMBDA data_str :
        IF data_str = <<>> THEN Ok(None)
        ELSE IF field_type = TypeC THEN Ok(StrVal(data_str))
        ELSE IF field_type = TypeN /\ decimal_count <= 0 THEN int_str(data_str)
        ELSE IF field_type \in {TypeN, TypeF} THEN float_str(data_str)
        ELSE IF field_type = TypeL
        THEN Ok(BoolVal(upper(data_str) \in {Txt_T, Txt_Y, Txt_1}))
        ELSE IF field_type = TypeD
        THEN IF Len(data_str) = 8
             THEN Let(DateOf(data_str), LAMBDA d :
                      IF d.exc = "ValueError" THEN Ok(None) ELSE d)
             ELSE Ok(None)
        ELSE Ok(StrVal(data_str)))

\* convert_field_value_safe: non-ASCII bytes are dropped, every exception is
\* swallowed
convert_field_value_safe(data, field_type, decimal_count) ==
    Let(strip(decodeIgnore(data)), LAMBDA data_str :
        IF data_str = <<>> THEN Ok(None)
        ELSE Let(IF field_type = TypeC THEN Ok(StrVal(data_str))
                 ELSE IF field_type = TypeN /\ decimal_count <= 0 THEN int_str(data_str)
                 ELSE IF field_type \in {TypeN, TypeF} THEN float_str(data_str)
                 ELSE IF field_type = TypeL
                 THEN Ok(BoolVal(upper(data_str) \in {Txt_T, Txt_Y, Txt_1}))
                 ELSE IF field_type = TypeD
                 THEN IF Len(data_str) = 8 /\ isdigit(data_str)
                      THEN DateOf(data_str) ELSE Ok(None)
                 ELSE Ok(StrVal(data_str)),
                 LAMBDA r : IF r.exc # "none" THEN Ok(None) ELSE r))

----------------------------------------------------------------------------
(* Python dicts (insertion-ordered) as sequences of key/value pairs, and   *)
(* the polars DataFrame built from a dict of columns.                      *)

RECURSIVE DictIndex(_, _, _)
DictIndex(d, k, i) ==
    IF i > Len(d) THEN 0 ELSE IF d[i].k = k THEN i ELSE DictIndex(d, k, i + 1)

\* d[k] = v
DictSet(d, k, v) ==
    Let(DictIndex(d, k, 1), LAMBDA at :
        IF at = 0 THEN Append(d, [k |-> k, v |-> v]) ELSE [d EXCEPT ![at].v = v])

\* d.get(k)
DictGet(d, k) == Let(DictIndex(d, k, 1), LAMBDA at : IF at = 0 THEN None ELSE d[at].v)

\* pl.DataFrame()
EmptyFrame == <<>>

\* the number of rows of a frame (a frame without columns has none)
Height(df) == IF df = <<>> THEN 0 ELSE Len(df[1].v)

\* the column names of a frame, in order
Columns(df) == [i \in 1..Len(df) |-> df[i].k]

----------------------------------------------------------------------------
(* DBFReader.                                                              *)

\* _read_header: 32 bytes; a bad last-update date is re-raised as ValueError
_read_header(file) ==
    LET header_data == Slice(file, 0, 32) IN
    IF Len(header_data) < 32 THEN Raise("ValueError")
    ELSE IF date(1900 + header_data[2], header_data[3], header_data[4]).exc # "none"
    THEN Raise("ValueError")
    ELSE Ok([version |-> header_data[1],
             num_records |-> unpack_L(Slice(header_data, 4, 8)),
             header_length |-> unpack_H(Slice(header_data, 8, 10)),
             record_length |-> unpack_H(Slice(header_data, 10, 12)),
             pos |-> 32])

\* the descriptor loop without the terminator check: a slot that begins with
\* 0x0D is decoded like any other
RECURSIVE DescriptorLoop_reads_past_terminator(_, _, _, _, _)
DescriptorLoop_reads_past_terminator(file, pos, i, num_fields, fields) ==
    IF i >= num_fields THEN [fields |-> fields, pos |-> pos]
    ELSE
      Let(Slice(file, pos, pos + 32), LAMBDA raw :
          IF raw = <<>> THEN [fields |-> fields, pos |-> pos]
          ELSE Let(from_bytes(ljust(raw, 32, NUL)), LAMBDA r :
                   DescriptorLoop_reads_past_terminator(
                       file, pos + Len(raw), i + 1, num_fields,
                       IF r.exc = "none" THEN Append(fields, r.val) ELSE fields)))

\* the descriptor loop of _read_field_descriptors, from iteration i at offset pos
RECURSIVE DescriptorLoop(_, _, _, _, _)
DescriptorLoop(file, pos, i, num_fields, fields) ==
    IF i >= num_fields THEN [fields |-> fields, pos |-> pos]
    ELSE
      Let(Slice(file, pos, pos + 32), LAMBDA raw :
      Let(ljust(raw, 32, NUL), LAMBDA field_data :
          IF raw = <<>> THEN [fields |-> fields, pos |-> pos]
          ELSE IF field_data[1] = TERMINATOR
          THEN [fields |-> fields, pos |-> pos + Len(raw) - 31]
          ELSE Let(from_bytes(field_data), LAMBDA r :
                   DescriptorLoop(file, pos + Len(raw), i + 1, num_fields,
                                  IF r.exc = "none" THEN Append(fields, r.val)
                                  ELSE fields))))

max_search == 100

\* the terminator search: at most k more one-byte reads from offset pos
RECURSIVE TerminatorScan(_, _, _)
TerminatorScan(file, pos, k) ==
    IF k = 0 \/ pos >= Len(file) THEN [found |-> FALSE, pos |-> pos]
    ELSE IF file[pos + 1] = TERMINATOR THEN [found |-> TRUE, pos |-> pos + 1]
    ELSE TerminatorScan(file, pos + 1, k - 1)

\* a call that goes on with the list it finds in the attribute
ClearedList_kept(old) == old

\* "self.fields = []" and "self.records = []": the list a call starts from,
\* whatever the attribute held before
ClearedList(old) == <<>>

\* _read_field_descriptors on an object whose field list is self_fields: the
\* fields and the offset record reading starts at
_read_field_descriptors(self_fields, file, header) ==
    IF header.header_length < 33 THEN Raise("ValueError")
    ELSE
      Let(DescriptorLoop(file, header.pos, 0, (header.header_length - 33) \div 32,
                         ClearedList(self_fields)),
          LAMBDA loop :
      Let(TerminatorScan(file, loop.pos, max_search), LAMBDA scan :
          Ok([fields |-> loop.fields,
              terminator_found |-> scan.found,
              pos |-> IF scan.found THEN scan.pos
                      ELSE 32 + Len(loop.fields) * 32 + 1])))

\* _parse_record from field number i on; a conversion that raises ends it
RECURSIVE ParseFields(_, _, _, _, _)
ParseFields(record_data, fields, i, offset, record) ==
    IF i > Len(fields) THEN Ok(record)
    ELSE
      Let(fields[i], LAMBDA field :
      Let(_convert_field_value(Slice(record_data, offset, offset + field.length),
                               field.field_type, field.decimal_count),
          LAMBDA value :
          IF value.exc # "none" THEN value
          ELSE ParseFields(record_data, fields, i + 1, offset + field.length,
                           DictSet(record, rstripNul(field.name), value.val))))

_parse_record(record_data, fields) == ParseFields(record_data, fields, 1, 0, <<>>)

\* the record loop without the deletion check: every whole record is parsed
\* (evaluated like RecordLoop)
RECURSIVE RecordLoop_keeps_deleted(_, _, _, _, _, _)
RecordLoop_keeps_deleted(file, pos, n, record_length, fields, records) ==
    IF n = 0 THEN [exc |-> "none", val |-> records, short |-> FALSE]
    ELSE IF n = 1
    THEN
      Let(Slice(file, pos, pos + record_length), LAMBDA record_data :
          IF Len(record_data) < record_length
          THEN [exc |-> "none", val |-> records, short |-> TRUE]
          ELSE Let(_parse_record(SliceFrom(record_data, 1), fields), LAMBDA record :
                   IF record.exc # "none"
                   THEN [exc |-> record.exc, val |-> records, short |-> FALSE]
                   ELSE [exc |-> "none", val |-> Append(records, record.val),
                         short |-> FALSE]))
    ELSE
      Let(RecordLoop_keeps_deleted(file, pos, n \div 2, record_length, fields, records),
          LAMBDA first :
          IF first.exc # "none" \/ first.short THEN first
          ELSE RecordLoop_keeps_deleted(file, pos + (n \div 2) * record_length, n - (n \div 2),
                      record_length, fields, first.val))

\* _read_records: the next n iterations of the loop, from offset pos with the
\* records kept so far; short is the break on a short read.  A whole read
\* advances the offset by record_length, so the iterations are evaluated as a
\* first and a second half, the second only when the first neither raised nor
\* broke off
RECURSIVE RecordLoop(_, _, _, _, _, _)
RecordLoop(file, pos, n, record_length, fields, records) ==
    IF n = 0 THEN [exc |-> "none", val |-> records, short |-> FALSE]
    ELSE IF n = 1
    THEN
      Let(Slice(file, pos, pos + record_length), LAMBDA record_data :
          IF Len(record_data) < record_length
          THEN [exc |-> "none", val |-> records, short |-> TRUE]
          ELSE IF Slice(record_data, 0, 1) = <<STAR>>
          THEN [exc |-> "none", val |-> records, short |-> FALSE]
          ELSE Let(_parse_record(SliceFrom(record_data, 1), fields), LAMBDA record :
                   IF record.exc # "none"
                   THEN [exc |-> record.exc, val |-> records, short |-> FALSE]
                   ELSE [exc |-> "none", val |-> Append(records, record.val),
                         short |-> FALSE]))
    ELSE
      Let(RecordLoop(file, pos, n \div 2, record_length, fields, records),
          LAMBDA first :
          IF first.exc # "none" \/ first.short THEN first
          ELSE RecordLoop(file, pos + (n \div 2) * record_length, n - (n \div 2),
                      record_length, fields, first.val))

\* _read_records on an object whose record list is self_records; when a record
\* raises, val is what self.records holds by then
_read_records(self_records, file, pos, header, fields) ==
    RecordLoop(file, pos, header.num_records, header.record_length, fields,
               ClearedList(self_records))

\* the dict of columns, one entry per distinct field name
RECURSIVE ColumnsOf(_, _, _, _)
ColumnsOf(fields, records, i, columns) ==
    IF i > Len(fields) THEN columns
    ELSE Let(rstripNul(fields[i].name), LAMBDA field_name :
             ColumnsOf(fields, records, i + 1,
                       DictSet(columns, field_name,
                               [j \in 1..Len(records) |->
                                   DictGet(records[j], field_name)])))

\* _create_dataframe
_create_dataframe(fields, records) ==
    IF records = <<>> THEN EmptyFrame ELSE ColumnsOf(fields, records, 1, <<>>)

\* DBFReader.__init__: the attributes a call of read assigns
DBFReader == [header |-> None, fields |-> <<>>, records |-> <<>>]

\* DBFReader.read with no companion index file, on an object in state self:
\* header, descriptors, records, frame.  out is the outcome of the call, self
\* the attributes when the call returns or raises
DBFReader_read_on(self, file) ==
    Let(_read_header(file), LAMBDA h :
        IF h.exc # "none"
        THEN [out |-> [exc |-> h.exc, step |-> "header"], self |-> self]
        ELSE Let(_read_field_descriptors(self.fields, file, h.val), LAMBDA fd :
        IF fd.exc # "none"
        THEN [out |-> [exc |-> fd.exc, step |-> "descriptors"],
              self |-> [header |-> h.val, fields |-> ClearedList(self.fields),
                        records |-> self.records]]
        ELSE Let(_read_records(self.records, file, fd.val.pos, h.val, fd.val.fields),
                 LAMBDA rs :
        IF rs.exc # "none"
        THEN [out |-> [exc |-> rs.exc, step |-> "records", header |-> h.val,
                       fields |-> fd.val.fields, data_pos |-> fd.val.pos],
              self |-> [header |-> h.val, fields |-> fd.val.fields,
                        records |-> rs.val]]
        ELSE [out |-> [exc |-> "none", step |-> "done", header |-> h.val,
                       fields |-> fd.val.fields, data_pos |-> fd.val.pos,
                       records |-> rs.val,
                       df |-> _create_dataframe(fd.val.fields, rs.val)],
              self |-> [header |-> h.val, fields |-> fd.val.fields,
                        records |-> rs.val]])))

\* DBFReader(path).read(): the call on a newly made object
DBFReader_read(file) == DBFReader_read_on(DBFReader, file).out

----------------------------------------------------------------------------
(* read_dbf_alternative: the fallback reader.                              *)

\* the descriptor walk: 32-byte chunks from offset pos while pos < header_length - 1
RECURSIVE AltDescriptorWalk(_, _, _, _)
AltDescriptorWalk(file, pos, header_length, fields) ==
    IF pos >= header_length - 1 THEN fields
    ELSE
      Let(Slice(file, pos, pos + 32), LAMBDA field_data :
          IF Len(field_data) < 32 THEN fields
          ELSE IF field_data[1] = TERMINATOR THEN fields
          ELSE Let(decodeIgnore(rstripNul(Slice(field_data, 0, 11))), LAMBDA name :
                   IF name = <<>> \/ ~isprintable(name) THEN fields
                   ELSE AltDescriptorWalk(file, pos + 32, header_length,
                            Append(fields,
                                   DBFFieldDescriptor(name, <<field_data[12]>>,
                                                      field_data[17],
                                                      field_data[18])))))

\* the field loop of one record: stops at the first field that extends beyond
\* the record; a conversion never raises
RECURSIVE AltParseFields(_, _, _, _, _)
AltParseFields(record_data, fields, i, offset, record) ==
    IF i > Len(fields) THEN record
    ELSE Let(fields[i], LAMBDA field :
             IF offset + field.length > Len(record_data) THEN record
             ELSE AltParseFields(record_data, fields, i + 1, offset + field.length,
                      DictSet(record, strip(field.name),
                              convert_field_value_safe(
                                  Slice(record_data, offset, offset + field.length),
                                  field.field_type, field.decimal_count).val)))

record_cap == 1000

\* the record loop: the next n iterations from offset pos, evaluated in halves
\* like RecordLoop; short is the break on an incomplete record
RECURSIVE AltRecordLoop(_, _, _, _, _, _)
AltRecordLoop(file, pos, n, record_length, fields, records) ==
    IF n = 0 THEN [val |-> records, short |-> FALSE]
    ELSE IF n = 1
    THEN
      Let(Slice(file, pos, pos + record_length), LAMBDA record_data :
          IF Len(record_data) < record_length THEN [val |-> records, short |-> TRUE]
          ELSE IF Slice(record_data, 0, 1) = <<STAR>>
          THEN [val |-> records, short |-> FALSE]
          ELSE Let(AltParseFields(record_data, fields, 1, 1, <<>>), LAMBDA record :
                   [val |-> IF record # <<>> THEN Append(records, record)
                            ELSE records,
                    short |-> FALSE]))
    ELSE
      Let(AltRecordLoop(file, pos, n \div 2, record_length, fields, records),
          LAMBDA first :
          IF first.short THEN first
          ELSE AltRecordLoop(file, pos + (n \div 2) * record_length, n - (n \div 2),
                             record_length, fields, first.val))

\* the dict of columns, keyed by field.name.strip()
RECURSIVE AltColumnsOf(_, _, _, _)
AltColumnsOf(fields, records, i, columns) ==
    IF i > Len(fields) THEN columns
    ELSE Let(strip(fields[i].name), LAMBDA col_name :
             AltColumnsOf(fields, records, i + 1,
                          DictSet(columns, col_name,
                                  [j \in 1..Len(records) |->
                                      DictGet(records[j], col_name)])))

\* the recovery reader without the limit on the records it reads
read_dbf_alternative_uncapped(file) ==
    Let(Slice(file, 0, 32), LAMBDA header_bytes :
        IF Len(header_bytes) < 32 THEN [exc |-> "ValueError", step |-> "header"]
        ELSE
          Let(unpack_H(Slice(header_bytes, 8, 10)), LAMBDA header_length :
          Let(AltDescriptorWalk(file, 32, header_length, <<>>), LAMBDA fields :
              IF fields = <<>> THEN [exc |-> "ValueError", step |-> "descriptors"]
              ELSE Let(AltRecordLoop(file, header_length,
                                     unpack_L(Slice(header_bytes, 4, 8)),
                                     unpack_H(Slice(header_bytes, 10, 12)), fields, <<>>).val,
                       LAMBDA records :
                       [exc |-> "none", step |-> "done", fields |-> fields,
                        data_pos |-> header_length, records |-> records,
                        df |-> IF records = <<>> THEN EmptyFrame
                               ELSE AltColumnsOf(fields, records, 1, <<>>)]))))

read_dbf_alternative(file) ==
    Let(Slice(file, 0, 32), LAMBDA header_bytes :
        IF Len(header_bytes) < 32 THEN [exc |-> "ValueError", step |-> "header"]
        ELSE
          Let(unpack_H(Slice(header_bytes, 8, 10)), LAMBDA header_length :
          Let(AltDescriptorWalk(file, 32, header_length, <<>>), LAMBDA fields :
              IF fields = <<>> THEN [exc |-> "ValueError", step |-> "descriptors"]
              ELSE Let(AltRecordLoop(file, header_length,
                                     Min(unpack_L(Slice(header_bytes, 4, 8)), record_cap),
                                     unpack_H(Slice(header_bytes, 10, 12)), fields, <<>>).val,
                       LAMBDA records :
                       [exc |-> "none", step |-> "done", fields |-> fields,
                        data_pos |-> header_length, records |-> records,
                        df |-> IF records = <<>> THEN EmptyFrame
                               ELSE AltColumnsOf(fields, records, 1, <<>>)]))))

----------------------------------------------------------------------------
(* read_dbf: DBFReader.read in a try block, read_dbf_alternative in its    *)
(* handler.                                                                *)

\* open(path, "rb") of a path with no file
NoFile(step) == [exc |-> "FileNotFoundError", step |-> step]

\* the try block: with debug the size of the file is printed first (stat of a
\* missing path raises) and get_index_info() of the fresh reader is a message;
\* then reader.read(use_index)
read_dbf_try(exists, file, debug) ==
    IF ~exists THEN NoFile(IF debug THEN "stat" ELSE "open")
    ELSE DBFReader_read(file)

\* the handler that would take every outcome, raised or not
ExceptionCaught_always(outcome) == TRUE

\* "except Exception": the handler runs when the try block raised
ExceptionCaught(outcome) == outcome.exc # "none"

\* the handler: read_dbf_alternative(file_path)
read_dbf_except(exists, file) ==
    IF ~exists THEN NoFile("open") ELSE read_dbf_alternative(file)

----------------------------------------------------------------------------
(* Python's str(), int(), float() and format() of a cell value.            *)

RECURSIVE Pow10(_)
Pow10(n) == IF n = 0 THEN 1 ELSE 10 * Pow10(n - 1)

RECURSIVE NatText(_)
NatText(n) == IF n < 10 THEN <<48 + n>> ELSE NatText(n \div 10) \o <<48 + (n % 10)>>

\* str(i) of an int
IntText(i) == IF i < 0 THEN <<45>> \o NatText(0 - i) ELSE NatText(i)

\* n as exactly w digits, zero-padded
Digits(n, w) == rjust(NatText(n), w, 48)

Abs(i) == IF i < 0 THEN 0 - i ELSE i

Word_True == <<84, 114, 117, 101>>
Word_False == <<70, 97, 108, 115, 101>>

\* format(x, ".<decimals>f") of a float: round to nearest, ties to even (the
\* model's floats are exactly representable wherever a tie occurs)
FixedText(x, decimals) ==
    IF "inf" \in DOMAIN x THEN (IF x.inf < 0 THEN <<45>> ELSE <<>>) \o Word_inf
    ELSE IF "nan" \in DOMAIN x THEN Word_nan
    ELSE
      Let(x.exp + decimals, LAMBDA shift :
      Let(Pow10(IF shift >= 0 THEN shift ELSE 0 - shift), LAMBDA scale :
      Let(Abs(x.mant), LAMBDA m :
      Let(IF shift >= 0 THEN m * scale
          ELSE IF 2 * (m % scale) > scale
                  \/ (2 * (m % scale) = scale /\ (m \div scale) % 2 = 1)
          THEN (m \div scale) + 1
          ELSE m \div scale, LAMBDA scaled :
      Let(Pow10(decimals), LAMBDA unit :
          (IF x.mant < 0 THEN <<45>> ELSE <<>>)
          \o NatText(scaled \div unit)
          \o (IF decimals > 0 THEN <<46>> \o Digits(scaled % unit, decimals)
              ELSE <<>>))))))

\* str(value); a float prints in positional notation (1e-4 <= |x| < 1e16)
str(value) ==
    IF value.t = "str" THEN value.s
    ELSE IF value.t = "int" THEN IntText(value.i)
    ELSE IF value.t = "bool" THEN (IF value.b THEN Word_True ELSE Word_False)
    ELSE IF value.t = "date"
    THEN Digits(value.y, 4) \o <<45>> \o Digits(value.m, 2) \o <<45>> \o Digits(value.d, 2)
    ELSE IF "mant" \in DOMAIN value
    THEN FixedText(value, IF value.exp >= 0 THEN 1 ELSE 0 - value.exp)
    ELSE FixedText(value, 0)

\* int(value)
int(value) ==
    IF value.t = "int" THEN Ok(value.i)
    ELSE IF value.t = "bool" THEN Ok(IF value.b THEN 1 ELSE 0)
    ELSE IF value.t = "str"
    THEN Let(int_str(value.s), LAMBDA r : IF r.exc = "none" THEN Ok(r.val.i) ELSE r)
    ELSE IF value.t = "float"
    THEN IF "inf" \in DOMAIN value THEN Raise("OverflowError")
         ELSE IF "nan" \in DOMAIN value THEN Raise("ValueError")
         ELSE IF value.exp >= 0 THEN Ok(value.mant * Pow10(value.exp))
         ELSE Ok((IF value.mant < 0 THEN -1 ELSE 1)
                 * (Abs(value.mant) \div Pow10(0 - value.exp)))
    ELSE Raise("TypeError")

\* float(value)
float(value) ==
    IF value.t = "float" THEN Ok(value)
    ELSE IF value.t = "int" THEN Ok(FloatVal(value.i, 0))
    ELSE IF value.t = "bool" THEN Ok(FloatVal(IF value.b THEN 1 ELSE 0, 0))
    ELSE IF value.t = "str" THEN float_str(value.s)
    ELSE Raise("TypeError")

\* bool(value)
Truthy(value) ==
    IF value.t = "bool" THEN value.b
    ELSE IF value.t = "int" THEN value.i # 0
    ELSE IF value.t = "str" THEN value.s # <<>>
    ELSE IF value.t = "float" THEN ~("mant" \in DOMAIN value /\ value.mant = 0)
    ELSE TRUE

----------------------------------------------------------------------------
(* CDXReader.  The reader object is [header, indexes]; read leaves what it *)
(* assigned in the object whether it returns or raises.                    *)

page_size == 512

Word_INDEX_ == <<73, 78, 68, 69, 88, 95>>

\* CDXIndex() with the name and key_length _read_index_descriptors gives it
CDXIndex(name, key_length) ==
    [name |-> name, expression |-> <<>>, key_length |-> key_length, key_type |-> TypeC,
     unique |-> FALSE, ascending |-> TRUE, root_page |-> 0, record_count |-> 0,
     keys |-> <<>>, record_numbers |-> <<>>]

\* CDXReader(path)
CDXReader == [header |-> None, indexes |-> <<>>]

\* CDXReader._read_header: 512 bytes or ValueError
CDX_read_header(file) ==
    Let(Slice(file, 0, 512), LAMBDA header_data :
        IF Len(header_data) < 512 THEN Raise("ValueError")
        ELSE Ok([root_page |-> unpack_L(Slice(header_data, 0, 4)),
                 free_page |-> unpack_L(Slice(header_data, 4, 8)),
                 reserved1 |-> unpack_L(Slice(header_data, 8, 12)),
                 key_length |-> unpack_H(Slice(header_data, 12, 14)),
                 index_options |-> header_data[15],
                 index_signature |-> header_data[16]]))

\* the entry loop of _read_index_descriptors from entry i at offset
RECURSIVE IndexEntries(_, _, _, _, _, _)
IndexEntries(page_data, i, entry_count, offset, key_length, indexes) ==
    IF i >= entry_count \/ offset + 32 > Len(page_data) THEN indexes
    ELSE
      Let(Slice(page_data, offset, offset + 32), LAMBDA slot :
      Let(FindFrom(slot, {NUL}, 1), LAMBDA name_end :
          IndexEntries(page_data, i + 1, entry_count, offset + 32, key_length,
                       Append(indexes,
                              CDXIndex(IF name_end # 0
                                       THEN decodeIgnore(Slice(slot, 0, name_end - 1))
                                       ELSE Word_INDEX_ \o NatText(i),
                                       key_length)))))

\* CDXReader._read_index_descriptors: the indexes after the call
CDX_read_index_descriptors(file, header, indexes) ==
    IF header.root_page = 0 THEN indexes
    ELSE
      Let(Slice(file, header.root_page * page_size,
                header.root_page * page_size + page_size), LAMBDA page_data :
          IF Len(page_data) < page_size THEN indexes
          ELSE IndexEntries(page_data, 0, unpack_H(Slice(page_data, 2, 4)), 12,
                            header.key_length, indexes))

\* CDXReader._read_index_data
CDX_read_index_data(index) == [index EXCEPT !.keys = <<>>, !.record_numbers = <<>>]

\* CDXReader.read: the outcome and the reader object afterwards
CDXReader_read(self, exists, file) ==
    IF ~exists THEN [exc |-> "FileNotFoundError", self |-> self]
    ELSE
      Let(CDX_read_header(file), LAMBDA h :
          IF h.exc # "none" THEN [exc |-> h.exc, self |-> self]
          ELSE
      Let(CDX_read_index_descriptors(file, h.val, self.indexes), LAMBDA found :
      Let([i \in 1..Len(found) |-> CDX_read_index_data(found[i])], LAMBDA indexes :
          [exc |-> "none",
           self |-> [header |-> h.val, indexes |-> indexes],
           val |-> [indexes |-> indexes, header |-> h.val, page_size |-> page_size]])))

----------------------------------------------------------------------------
(* DBFReader.read with a companion index file and use_index.              *)

\* the first part of DBFReader.read: self.cdx_info after it.  A CDXReader is
\* made for the companion file when it exists; an exception of its read is
\* swallowed and leaves self.cdx_info as it was
LoadCdxInfo(cdx_info, exists, cdx_file) ==
    IF ~exists THEN cdx_info
    ELSE Let(CDXReader_read(CDXReader, TRUE, cdx_file), LAMBDA r :
             IF r.exc = "none" THEN r.val ELSE cdx_info)

\* the position in indexes of the first index named index_name whatever the
\* case, 0 when there is none
RECURSIVE TargetIndex(_, _, _)
TargetIndex(indexes, index_name, i) ==
    IF i > Len(indexes) THEN 0
    ELSE IF upper(indexes[i].name) = upper(index_name) THEN i
    ELSE TargetIndex(indexes, index_name, i + 1)

Reversed(s) == [i \in 1..Len(s) |-> s[Len(s) + 1 - i]]

\* an index sort that puts the rows in another order when the index is found
_apply_index_sort_reorders(df, cdx_info, index_name) ==
    IF cdx_info = None THEN df
    ELSE IF TargetIndex(cdx_info.indexes, index_name, 1) = 0 THEN df
    ELSE [c \in 1..Len(df) |-> [k |-> df[c].k, v |-> Reversed(df[c].v)]]

\* DBFReader._apply_index_sort: the frame is returned as it came, whether the
\* index is found or not and whether it has record numbers or not
_apply_index_sort(df, cdx_info, index_name) ==
    IF cdx_info = None THEN df
    ELSE Let(TargetIndex(cdx_info.indexes, index_name, 1), LAMBDA target_index :
             IF target_index = 0 THEN df
             ELSE IF cdx_info.indexes[target_index].record_numbers # <<>> THEN df
             ELSE df)

\* DBFReader.read(use_index) of a reader whose cdx_info is None, the companion
\* path absent or holding cdx_file
DBFReader_read_use_index(file, exists, cdx_file, use_index) ==
    Let(LoadCdxInfo(None, exists, cdx_file), LAMBDA cdx_info :
    Let(DBFReader_read(file), LAMBDA r :
        IF r.exc # "none" THEN [exc |-> r.exc, cdx_info |-> cdx_info]
        ELSE [exc |-> "none", cdx_info |-> cdx_info,
              df |-> IF use_index # None /\ use_index.s # <<>> /\ cdx_info # None
                     THEN _apply_index_sort(r.df, cdx_info, use_index.s)
                     ELSE r.df]))

----------------------------------------------------------------------------
(* DBFWriter.  A table is a sequence of columns [k, dtype, v]; field_specs *)
(* is NoSpecs (None) or Specs(d) for a dict d from column name to          *)
(* [type, length, decimal].                                                *)

NoSpecs == [none |-> TRUE]
Specs(d) == [none |-> FALSE, dict |-> d]

Txt_F == <<70>>

\* _format_field_value: ValueError and OverflowError of a numeric conversion
\* blank the field, any other exception propagates
_format_field_value(value, field) ==
    IF value = None THEN Ok(Repeat(SP, field.length))
    ELSE IF field.field_type \in {TypeN, TypeF}
    THEN Let(IF field.field_type = TypeN /\ field.decimal_count = 0
             THEN int(value) ELSE float(value), LAMBDA x :
             IF x.exc \in {"ValueError", "OverflowError"}
             THEN Ok(Repeat(SP, field.length))
             ELSE IF x.exc # "none" THEN x
             ELSE IF field.field_type = TypeN /\ field.decimal_count = 0
             THEN Ok(rjust(IntText(x.val), field.length, SP))
             ELSE Ok(rjust(FixedText(x.val, field.decimal_count), field.length, SP)))
    ELSE IF field.field_type = TypeL
    THEN Ok(IF Truthy(value) THEN Txt_T ELSE Txt_F)
    ELSE IF field.field_type = TypeD
    THEN IF value.t = "date"
         THEN Ok(Digits(value.y, 4) \o Digits(value.m, 2) \o Digits(value.d, 2))
         ELSE Ok(Repeat(SP, field.length))
    ELSE Ok(encodeReplace(ljust(Slice(str(value), 0, field.length), field.length, SP)))

\* the longest string of a String column, None when it has no string
RECURSIVE MaxLenChars(_, _)
MaxLenChars(vals, i) ==
    IF i > Len(vals) THEN -1
    ELSE Max(IF vals[i] = None THEN -1 ELSE Len(vals[i].s), MaxLenChars(vals, i + 1))

\* the specification inferred for one column
InferSpec(col) ==
    IF col.dtype = "String"
    THEN Let(MaxLenChars(col.v, 1), LAMBDA max_len :
             [type |-> TypeC,
              length |-> Min(IF max_len <= 0 THEN 10 ELSE max_len, 254),
              decimal |-> 0])
    ELSE IF col.dtype \in {"Int8", "Int16", "Int32", "Int64"}
    THEN [type |-> TypeN, length |-> 18, decimal |-> 0]
    ELSE IF col.dtype \in {"Float32", "Float64"}
    THEN [type |-> TypeF, length |-> 20, decimal |-> 6]
    ELSE IF col.dtype = "Boolean" THEN [type |-> TypeL, length |-> 1, decimal |-> 0]
    ELSE IF col.dtype = "Date" THEN [type |-> TypeD, length |-> 8, decimal |-> 0]
    ELSE [type |-> TypeC, length |-> 50, decimal |-> 0]

\* _infer_field_specs
RECURSIVE _infer_field_specs(_, _, _)
_infer_field_specs(df, i, field_specs) ==
    IF i > Len(df) THEN field_specs
    ELSE _infer_field_specs(df, i + 1, DictSet(field_specs, df[i].k, InferSpec(df[i])))

\* _create_field_descriptors: a column without a specification is a KeyError
RECURSIVE _create_field_descriptors(_, _, _, _)
_create_field_descriptors(columns, field_specs, i, fields) ==
    IF i > Len(columns) THEN Ok(fields)
    ELSE IF DictIndex(field_specs, columns[i], 1) = 0 THEN Raise("KeyError")
    ELSE
      Let(DictGet(field_specs, columns[i]), LAMBDA spec :
          _create_field_descriptors(columns, field_specs, i + 1,
              Append(fields, DBFFieldDescriptor(columns[i], spec.type, spec.length,
                                                spec.decimal))))

RECURSIVE SumLengths(_, _)
SumLengths(fields, i) ==
    IF i > Len(fields) THEN 0 ELSE fields[i].length + SumLengths(fields, i + 1)

\* the header with a header_length that leaves the terminator out
_write_header_without_terminator(num_records, num_fields, record_length, today) ==
    LET header_length == 32 + (num_fields * 32) IN
    IF today.y - 1900 \notin 0..255 \/ header_length \notin 0..65535
       \/ record_length \notin 0..65535
    THEN Raise("struct.error")
    ELSE Ok(pack_B(3) \o pack_B(today.y - 1900) \o pack_B(today.m) \o pack_B(today.d)
            \o pack_L(num_records) \o pack_H(header_length) \o pack_H(record_length)
            \o pack_H(0) \o pack_H(0) \o pack_H(0) \o pack_H(0) \o pack_H(0)
            \o pack_H(0) \o pack_H(0) \o pack_H(0) \o pack_H(0))

\* _write_header: struct.pack("<BBBBLHHHHHHHHHHH", ...) of the version, the date,
\* the three counts and nine zero shorts
_write_header(num_records, num_fields, record_length, today) ==
    LET header_length == 32 + (num_fields * 32) + 1 IN
    IF today.y - 1900 \notin 0..255 \/ header_length \notin 0..65535
       \/ record_length \notin 0..65535
    THEN Raise("struct.error")
    ELSE Ok(pack_B(3) \o pack_B(today.y - 1900) \o pack_B(today.m) \o pack_B(today.d)
            \o pack_L(num_records) \o pack_H(header_length) \o pack_H(record_length)
            \o pack_H(0) \o pack_H(0) \o pack_H(0) \o pack_H(0) \o pack_H(0)
            \o pack_H(0) \o pack_H(0) \o pack_H(0) \o pack_H(0))

\* one descriptor as _write_field_descriptors packs it:
\* struct.pack("<11sB4sBBB13sB", name, ord(type), zeros, length, decimals, 0, zeros, 0)
PackDescriptor(field) ==
    LET field_name == ljust(Slice(field.name, 0, 10), 11, NUL) IN
    IF ~IsAscii(field_name) THEN Raise("UnicodeEncodeError")
    ELSE IF Len(field.field_type) # 1 THEN Raise("TypeError")
    ELSE IF field.field_type[1] > 255 \/ field.length \notin 0..255
            \/ field.decimal_count \notin 0..255 THEN Raise("struct.error")
    ELSE Ok(pack_s(field_name, 11) \o pack_B(field.field_type[1]) \o pack_s(<<>>, 4)
            \o pack_B(field.length) \o pack_B(field.decimal_count) \o pack_B(0)
            \o pack_s(<<>>, 13) \o pack_B(0))

\* _write_field_descriptors from field i on: out is what has been written
RECURSIVE _write_field_descriptors(_, _, _)
_write_field_descriptors(fields, i, out) ==
    IF i > Len(fields) THEN [exc |-> "none", out |-> out \o <<TERMINATOR>>]
    ELSE Let(PackDescriptor(fields[i]), LAMBDA descriptor :
             IF descriptor.exc # "none" THEN [exc |-> descriptor.exc, out |-> out]
             ELSE _write_field_descriptors(fields, i + 1, out \o descriptor.val))

\* row.get(name) of row number r
RowGet(df, r, name) ==
    IF \E c \in 1..Len(df) : df[c].k = name
    THEN df[CHOOSE c \in 1..Len(df) : df[c].k = name].v[r]
    ELSE None

\* the fields of one row from field i on
RECURSIVE WriteRow(_, _, _, _, _)
WriteRow(df, r, fields, i, out) ==
    IF i > Len(fields) THEN [exc |-> "none", out |-> out]
    ELSE
      Let(_format_field_value(RowGet(df, r, rstripNul(fields[i].name)), fields[i]),
          LAMBDA field_data :
          IF field_data.exc # "none" THEN [exc |-> field_data.exc, out |-> out]
          ELSE WriteRow(df, r, fields, i + 1, out \o field_data.val))

\* _write_records from row r on
RECURSIVE _write_records(_, _, _, _)
_write_records(df, fields, r, out) ==
    IF r > Height(df) THEN [exc |-> "none", out |-> out \o <<EOF_MARK>>]
    ELSE
      Let(WriteRow(df, r, fields, 1, out \o <<SP>>), LAMBDA row :
          IF row.exc # "none" THEN row
          ELSE _write_records(df, fields, r + 1, row.out))

\* a write that opens the file before it looks at the table
DBFWriter_write_opens_first(df, field_specs, today, file) ==
    IF Height(df) = 0 THEN [exc |-> "ValueError", opened |-> TRUE, file |-> <<>>]
    ELSE
      Let(_create_field_descriptors(Columns(df),
                                    IF field_specs.none
                                    THEN _infer_field_specs(df, 1, <<>>)
                                    ELSE field_specs.dict, 1, <<>>), LAMBDA made :
          IF made.exc # "none" THEN [exc |-> made.exc, opened |-> FALSE, file |-> file]
          ELSE
      Let(made.val, LAMBDA fields :
      Let(1 + SumLengths(fields, 1), LAMBDA record_length :
      Let(_write_header(Height(df), Len(fields), record_length, today), LAMBDA header :
          IF header.exc # "none"
          THEN [exc |-> header.exc, opened |-> TRUE, file |-> <<>>, fields |-> fields]
          ELSE
      Let(_write_field_descriptors(fields, 1, header.val), LAMBDA descs :
          IF descs.exc # "none"
          THEN [exc |-> descs.exc, opened |-> TRUE, file |-> descs.out,
                fields |-> fields]
          ELSE
      Let(_write_records(df, fields, 1, descs.out), LAMBDA recs :
          [exc |-> recs.exc, opened |-> TRUE, file |-> recs.out, fields |-> fields,
           record_length |-> record_length]))))))

\* DBFWriter.write: the outcome and the bytes of the file afterwards (file is
\* what was there before; open(..., "wb") empties it)
DBFWriter_write(df, field_specs, today, file) ==
    IF Height(df) = 0 THEN [exc |-> "ValueError", opened |-> FALSE, file |-> file]
    ELSE
      Let(_create_field_descriptors(Columns(df),
                                    IF field_specs.none
                                    THEN _infer_field_specs(df, 1, <<>>)
                                    ELSE field_specs.dict, 1, <<>>), LAMBDA made :
          IF made.exc # "none" THEN [exc |-> made.exc, opened |-> FALSE, file |-> file]
          ELSE
      Let(made.val, LAMBDA fields :
      Let(1 + SumLengths(fields, 1), LAMBDA record_length :
      Let(_write_header(Height(df), Len(fields), record_length, today), LAMBDA header :
          IF header.exc # "none"
          THEN [exc |-> header.exc, opened |-> TRUE, file |-> <<>>, fields |-> fields]
          ELSE
      Let(_write_field_descriptors(fields, 1, header.val), LAMBDA descs :
          IF descs.exc # "none"
          THEN [exc |-> descs.exc, opened |-> TRUE, file |-> descs.out,
                fields |-> fields]
          ELSE
      Let(_write_records(df, fields, 1, descs.out), LAMBDA recs :
          [exc |-> recs.exc, opened |-> TRUE, file |-> recs.out, fields |-> fields,
           record_length |-> record_length]))))))

----------------------------------------------------------------------------
(* The inputs: descriptors and raw values for the pure functions, tables   *)
(* for the writer, and files produced by other software for the readers.   *)

Name_ID == <<73, 68>>
Name_NAME == <<78, 65, 77, 69>>
Name_ACTIVE == <<65, 67, 84, 73, 86, 69>>
Name_BORN == <<66, 79, 82, 78>>
Name_AMOUNT == <<65, 77, 79, 85, 78, 84>>
Name_NOTE == <<78, 79, 84, 69>>
Name_OK == <<79, 75>>
Name_COUNT == <<67, 79, 85, 78, 84>>
Name_DESCRIPTION == <<68, 69, 83, 67, 82, 73, 80, 84, 73, 79, 78>>   \* 11 characters
Name_TEN == <<67, 85, 83, 84, 79, 77, 69, 82, 73, 68>>   \* "CUSTOMERID"

TypeX == <<88>>

Txt_12 == <<32, 49, 50>>                             \* " 12"
Txt_7 == <<32, 32, 55>>                              \* "  7"
Txt_m7 == <<45, 55>>                                 \* "-7"
Txt_abc == <<97, 98, 99>>                            \* "abc"
Txt_1p5 == <<32, 49, 46, 53>>                        \* " 1.5"
Txt_1e2 == <<49, 101, 50>>                           \* "1e2"
Txt_1_2 == <<49, 95, 50>>                            \* "1_2"
Txt_blank == <<32, 32, 32>>                          \* "   "
Txt_y == <<121>>                                     \* "y"
Txt_q == <<63>>                                      \* "?"
Txt_hi1 == <<233, 49>>                               \* e-acute, "1"
Txt_nul == <<0, 0>>
Txt_Alice == <<65, 108, 105, 99, 101>>
Txt_Bob == <<66, 111, 98>>
Txt_Bob5 == <<66, 111, 98, 32, 32>>                  \* "Bob  "
Txt_leapday == <<50, 48, 50, 52, 48, 50, 50, 57>>    \* "20240229"
Txt_feb30 == <<50, 48, 50, 52, 48, 50, 51, 48>>      \* "20240230"
Txt_innersp == <<50, 48, 50, 52, 32, 49, 48, 49>>    \* "2024 101"
Txt_signed == <<43, 50, 48, 50, 48, 49, 48, 49>>     \* "+2020101"
Txt_under == <<50, 95, 48, 50, 48, 49, 48, 49>>      \* "2_020101"
Txt_short == <<50, 48, 50, 52, 48, 49, 49, 32>>      \* "2024011 "
Txt_year0 == <<48, 48, 48, 48, 48, 49, 48, 49>>      \* "00000101"
Txt_month13 == <<50, 48, 50, 52, 49, 51, 48, 49>>    \* "20241301"
Txt_dashes == <<50, 48, 50, 52, 45, 49, 45, 49>>     \* "2024-1-1"
Txt_9digits == <<50, 48, 50, 52, 48, 49, 48, 49, 49>> \* "202401011"

CodecNames == {Name_ID, Name_NAME, Name_ACTIVE, Name_TEN}
CodecTypes == {TypeC, TypeN, TypeF, TypeL, TypeD, TypeM}
CodecLengths == {0, 1, 10, 255}
CodecDecimals == {0, 2, 255}

ConvTypes == {TypeC, TypeN, TypeF, TypeL, TypeD, TypeM, TypeX}
ConvDecimals == {0, 2}
ConvData ==
    {<<>>, Txt_12, Txt_7, Txt_m7, Txt_abc, Txt_1p5, Txt_1e2, Txt_1_2, Txt_blank,
     Txt_T, Txt_y, Txt_q, Txt_hi1, Txt_nul, Txt_Alice, Txt_Bob5, Word_inf,
     Txt_leapday, Txt_feb30, Txt_innersp, Txt_signed, Txt_under, Txt_short,
     Txt_year0, Txt_month13, Txt_dashes, Txt_9digits}

RECURSIVE SortedSeq(_)
SortedSeq(S) ==
    IF S = {} THEN <<>>
    ELSE LET m == CHOOSE x \in S : \A y \in S : x <= y
         IN  <<m>> \o SortedSeq(S \ {m})

Odd(i) == i % 2 = 1

\* the columns tables are made of, each with n rows
PoolColumn(c, n) ==
    IF c = 1 THEN [k |-> Name_ID, dtype |-> "Int64", v |-> [i \in 1..n |-> IntVal(i)]]
    ELSE IF c = 2
    THEN [k |-> Name_NAME, dtype |-> "String",
          v |-> [i \in 1..n |-> StrVal(IF Odd(i) THEN Txt_Alice ELSE Txt_Bob)]]
    ELSE IF c = 3
    THEN [k |-> Name_ACTIVE, dtype |-> "Boolean", v |-> [i \in 1..n |-> BoolVal(Odd(i))]]
    ELSE IF c = 4
    THEN [k |-> Name_BORN, dtype |-> "Date",
          v |-> [i \in 1..n |-> IF Odd(i) THEN DateVal(2024, 2, 29)
                                ELSE DateVal(1999, 12, 31)]]
    ELSE IF c = 5
    THEN [k |-> Name_AMOUNT, dtype |-> "Float64",
          v |-> [i \in 1..n |-> IF Odd(i) THEN FloatVal(15, -1) ELSE FloatVal(-225, -2)]]
    ELSE IF c = 6
    THEN [k |-> Name_NOTE, dtype |-> "String",
          v |-> [i \in 1..n |-> IF Odd(i) THEN None ELSE StrVal(Txt_Bob)]]
    ELSE IF c = 7
    THEN [k |-> Name_COUNT, dtype |-> "UInt32", v |-> [i \in 1..n |-> IntVal(10 * i)]]
    ELSE [k |-> Name_DESCRIPTION, dtype |-> "String",
          v |-> [i \in 1..n |-> StrVal(IF Odd(i) THEN Txt_Bob ELSE Txt_Alice)]]

PoolColumns == 1..8

TableOf(S, n) == [i \in 1..Cardinality(S) |-> PoolColumn(SortedSeq(S)[i], n)]

Tables ==
    {TableOf(S, n) : S \in {T \in SUBSET PoolColumns : Cardinality(T) \in 1..MaxCols},
                     n \in 0..MaxRows}

\* the explicit specification of a pool column
NarrowSpec(name) ==
    IF name = Name_ID THEN [type |-> TypeN, length |-> 3, decimal |-> 0]
    ELSE IF name = Name_NAME THEN [type |-> TypeC, length |-> 3, decimal |-> 0]
    ELSE IF name = Name_ACTIVE THEN [type |-> TypeL, length |-> 1, decimal |-> 0]
    ELSE IF name = Name_BORN THEN [type |-> TypeD, length |-> 8, decimal |-> 0]
    ELSE IF name = Name_AMOUNT THEN [type |-> TypeN, length |-> 8, decimal |-> 2]
    ELSE [type |-> TypeC, length |-> 4, decimal |-> 0]

NarrowSpecs(df) == [i \in 1..Len(df) |-> [k |-> df[i].k, v |-> NarrowSpec(df[i].k)]]

\* a specification of the column's own type whose length is not the size of
\* the formatted value
LooseSpec(name) ==
    IF name = Name_ID THEN [type |-> TypeN, length |-> 1, decimal |-> 2]
    ELSE IF name = Name_NAME THEN [type |-> TypeC, length |-> 7, decimal |-> 0]
    ELSE IF name = Name_ACTIVE THEN [type |-> TypeL, length |-> 2, decimal |-> 0]
    ELSE IF name = Name_BORN THEN [type |-> TypeD, length |-> 10, decimal |-> 0]
    ELSE IF name = Name_AMOUNT THEN [type |-> TypeF, length |-> 3, decimal |-> 2]
    ELSE [type |-> TypeC, length |-> 2, decimal |-> 0]

LooseSpecs(df) == [i \in 1..Len(df) |-> [k |-> df[i].k, v |-> LooseSpec(df[i].k)]]

\* a specification of another type than the column's
WrongSpec(name) ==
    IF name = Name_ID THEN [type |-> TypeD, length |-> 8, decimal |-> 0]
    ELSE IF name = Name_NAME THEN [type |-> TypeN, length |-> 5, decimal |-> 0]
    ELSE IF name = Name_ACTIVE THEN [type |-> TypeF, length |-> 6, decimal |-> 1]
    ELSE IF name = Name_BORN THEN [type |-> TypeN, length |-> 8, decimal |-> 0]
    ELSE IF name = Name_AMOUNT THEN [type |-> TypeC, length |-> 6, decimal |-> 0]
    ELSE [type |-> TypeF, length |-> 5, decimal |-> 1]

WrongSpecs(df) == [i \in 1..Len(df) |-> [k |-> df[i].k, v |-> WrongSpec(df[i].k)]]

\* the field_specs arguments of write: None or one of the dicts
FieldSpecs(df) ==
    {NoSpecs, Specs(NarrowSpecs(df)), Specs(LooseSpecs(df)), Specs(WrongSpecs(df))}

Todays == {[y |-> 2026, m |-> 11, d |-> 3], [y |-> 2024, m |-> 2, d |-> 29]}

\* the fields foreign files are made of
ForeignField(c) ==
    IF c = 1 THEN DBFFieldDescriptor(Name_ID, TypeN, 3, 0)
    ELSE IF c = 2 THEN DBFFieldDescriptor(Name_NAME, TypeC, 5, 0)
    ELSE IF c = 3 THEN DBFFieldDescriptor(Name_BORN, TypeD, 8, 0)
    ELSE DBFFieldDescriptor(Name_OK, TypeL, 1, 0)

ForeignFields == 1..4

ForeignFieldLists ==
    {[i \in 1..Cardinality(S) |-> ForeignField(SortedSeq(S)[i])] :
        S \in {T \in SUBSET ForeignFields : Cardinality(T) \in 0..MaxFields}}

\* "A\rB  ": text with a carriage return, the byte of the terminator
Txt_ACrB == <<65, TERMINATOR, 66, SP, SP>>

\* the raw content of a field in a record of kind "a", "b" or "junk"; kind "cr"
\* is kind "a" with a carriage return in the text of a character field
ForeignContent(field, kind) ==
    IF kind = "cr"
    THEN (IF field.field_type = TypeC THEN Txt_ACrB
          ELSE IF field.field_type = TypeN THEN Txt_12
          ELSE IF field.field_type = TypeD THEN Txt_leapday ELSE Txt_T)
    ELSE IF field.field_type = TypeN
    THEN (IF kind = "a" THEN Txt_12 ELSE IF kind = "b" THEN Txt_7 ELSE Txt_abc)
    ELSE IF field.field_type = TypeC
    THEN (IF kind = "a" THEN Txt_Alice ELSE IF kind = "b" THEN Txt_Bob5
          ELSE Repeat(SP, 5))
    ELSE IF field.field_type = TypeD
    THEN (IF kind = "a" THEN Txt_leapday ELSE IF kind = "b" THEN Txt_feb30
          ELSE Txt_innersp)
    ELSE (IF kind = "a" THEN Txt_T ELSE IF kind = "b" THEN Txt_q ELSE <<SP>>)

RecordKinds == {"a", "b", "junk"}
RecordFlags == {SP, STAR}

\* the sequences over S of length at most n
RECURSIVE SeqsUpTo(_, _)
SeqsUpTo(S, n) ==
    IF n = 0 THEN {<<>>}
    ELSE SeqsUpTo(S, n - 1)
         \cup {Append(s, x) : s \in {t \in SeqsUpTo(S, n - 1) : Len(t) = n - 1}, x \in S}

RECURSIVE Concat(_, _)
Concat(parts, i) == IF i > Len(parts) THEN <<>> ELSE parts[i] \o Concat(parts, i + 1)

\* a header in the layout of the format: 32 bytes, counts at offsets 4, 8 and 10
ForeignHeader(today, num_records, header_length, record_length) ==
    pack_B(3) \o pack_B(today.y - 1900) \o pack_B(today.m) \o pack_B(today.d)
    \o pack_L(num_records) \o pack_H(header_length) \o pack_H(record_length)
    \o pack_s(<<>>, 20)

\* a descriptor in the layout of the format: 32 bytes, length at offset 16
ForeignDescriptor(field) ==
    pack_s(field.name, 11) \o pack_B(field.field_type[1]) \o pack_s(<<>>, 4)
    \o pack_B(field.length) \o pack_B(field.decimal_count) \o pack_s(<<>>, 14)

\* a record: its flag, then the content of every field (the flag alone when the
\* file's records hold nothing else)
ForeignRecord(fields, rec, flagonly) ==
    IF flagonly THEN <<rec.flag>>
    ELSE <<rec.flag>> \o Concat([i \in 1..Len(fields) |->
                                    ForeignContent(fields[i], rec.kind)], 1)

\* a file as other software writes it, with its last cut bytes missing
ForeignFile(fields, recs, flagonly, cut) ==
    LET whole ==
          ForeignHeader([y |-> 2024, m |-> 2, d |-> 29], Len(recs),
                        32 + 32 * Len(fields) + 1,
                        IF flagonly THEN 1 ELSE 1 + SumLengths(fields, 1))
          \o Concat([i \in 1..Len(fields) |-> ForeignDescriptor(fields[i])], 1)
          \o <<TERMINATOR>>
          \o Concat([i \in 1..Len(recs) |-> ForeignRecord(fields, recs[i], flagonly)], 1)
          \o <<EOF_MARK>>
    IN  SubSeq(whole, 1, Len(whole) - cut)

ForeignRecords ==
    SeqsUpTo({[flag |-> f, kind |-> k] : f \in RecordFlags, k \in RecordKinds}, MaxRecs)

ForeignFiles ==
    {ForeignFile(fs, rs, FALSE, cut) :
        fs \in ForeignFieldLists, rs \in ForeignRecords,
        cut \in {0, 2}}
    \cup
    {ForeignFile(fs, rs, TRUE, 0) :
        fs \in ForeignFieldLists,
        rs \in {r \in ForeignRecords : \A i \in 1..Len(r) : r[i].kind = "a"}}
    \cup
    {ForeignFile(fs, <<[flag |-> SP, kind |-> "cr"]>>, FALSE, 0) :
        fs \in ForeignFieldLists}

\* a whole file whose header declares more descriptors than the file holds:
\* header_length counts declared slots, the terminator follows the last of the
\* fields
OverstatedFile(fields, recs, declared) ==
    ForeignHeader([y |-> 2024, m |-> 2, d |-> 29], Len(recs),
                  32 + 32 * declared + 1, 1 + SumLengths(fields, 1))
    \o Concat([i \in 1..Len(fields) |-> ForeignDescriptor(fields[i])], 1)
    \o <<TERMINATOR>>
    \o Concat([i \in 1..Len(recs) |-> ForeignRecord(fields, recs[i], FALSE)], 1)
    \o <<EOF_MARK>>

\* the files a path's file is replaced with between two reads: no field and no
\* record, one field and one record, two fields and two records
ReplacementFiles ==
    {ForeignFile(<<>>, <<>>, FALSE, 0),
     ForeignFile(<<ForeignField(1)>>, <<[flag |-> SP, kind |-> "a"]>>, FALSE, 0),
     ForeignFile(<<ForeignField(1), ForeignField(2)>>,
                 <<[flag |-> SP, kind |-> "a"], [flag |-> SP, kind |-> "b"]>>,
                 FALSE, 0)}

\* the file with other last-update bytes 1-3
Redated(file, yy, mm, dd) == <<file[1], yy, mm, dd>> \o SubSeq(file, 5, Len(file))

\* files whose last-update bytes are no date: all zero, or the 30th of February
UndatedFiles ==
    {Redated(file, 0, 0, 0) : file \in ReplacementFiles}
    \cup {Redated(file, 124, 2, 30) : file \in ReplacementFiles}

OverstatedFiles ==
    {OverstatedFile(fs, rs, Len(fs) + extra) :
        fs \in ForeignFieldLists,
        rs \in {r \in ForeignRecords : \A i \in 1..Len(r) : r[i].kind # "b"},
        extra \in {1, 2}}
    \cup
    {OverstatedFile(fs, rs, Len(fs) + 1) :
        fs \in ForeignFieldLists,
        rs \in {<<[flag |-> SP, kind |-> "cr"]>>,
                [i \in 1..6 |-> [flag |-> SP, kind |-> "cr"]]}}

\* a file of n records of one byte, the flag, and one field of length 0; the
\* first record has the flag given, the others are live
LongFile(n, flag) ==
    ForeignHeader([y |-> 2024, m |-> 2, d |-> 29], n, 32 + 32 + 1, 1)
    \o ForeignDescriptor(DBFFieldDescriptor(Name_NOTE, TypeC, 0, 0))
    \o <<TERMINATOR>>
    \o [i \in 1..n |-> IF i = 1 THEN flag ELSE SP]
    \o <<EOF_MARK>>

\* files of about as many records as read_dbf_alternative reads at most
LongFiles ==
    {LongFile(n, flag) : n \in (record_cap - 1)..(record_cap + 2), flag \in RecordFlags}

\* a file of n live records of two bytes with one numeric field of length 1:
\* "x" in the first record, "7" in the others
JunkLongFile(n) ==
    ForeignHeader([y |-> 2024, m |-> 2, d |-> 29], n, 32 + 32 + 1, 2)
    \o ForeignDescriptor(DBFFieldDescriptor(Name_ID, TypeN, 1, 0))
    \o <<TERMINATOR>>
    \o [i \in 1..(2 * n) |-> IF i % 2 = 1 THEN SP ELSE IF i = 2 THEN 120 ELSE 55]
    \o <<EOF_MARK>>

JunkLongFiles == {JunkLongFile(n) : n \in record_cap..(record_cap + 1)}

\* index files: a 512-byte header and one page for the root
CdxHeader(root_page, key_length) ==
    pack_L(root_page) \o pack_L(0) \o pack_L(0) \o pack_H(key_length)
    \o Repeat(NUL, page_size - 14)

Name_TAG1 == <<84, 65, 71, 49>>

\* the entries of a root page: a name that ends with NUL, a slot without NUL,
\* a name with a byte that is not ASCII
CdxSlots ==
    {<<>>,
     <<pack_s(Name_TAG1, 32), Repeat(66, 32)>>,
     <<pack_s(<<233>> \o Name_ID, 32)>>}

CdxPage(entry_count, slots) ==
    pack_H(1) \o pack_H(entry_count) \o pack_L(0) \o pack_L(0)
    \o Concat(slots, 1) \o Repeat(NUL, page_size - 12 - 32 * Len(slots))

\* an index file with its last cut bytes missing
CdxFile(root_page, key_length, entry_count, slots, cut) ==
    Let(CdxHeader(root_page, key_length) \o CdxPage(entry_count, slots), LAMBDA whole :
        SubSeq(whole, 1, Len(whole) - cut))

CdxFiles ==
    {CdxFile(root_page, key_length, entry_count, slots, cut) :
        root_page \in 0..2, key_length \in {0, 10}, entry_count \in {0, 2, 16},
        slots \in CdxSlots, cut \in {0, 1, page_size + 1, 2 * page_size}}

Name_tag1 == <<116, 97, 103, 49>>
Name_NOPE == <<78, 79, 80, 69>>

\* the index files beside a table file: too short to be read, without a root
\* page, with the indexes TAG1 and INDEX_1
CompanionFiles ==
    {CdxFile(1, 10, 2, <<pack_s(Name_TAG1, 32), Repeat(66, 32)>>, cut) :
        cut \in {0, 2 * page_size - 1}}
    \cup {CdxFile(0, 10, 0, <<>>, 0)}

\* the use_index arguments: a name of an index in another case, a name of no
\* index
UseIndexes == {StrVal(Name_tag1), StrVal(Name_NOPE)}

\* what an earlier run may have left at the path the writer is given: an
\* empty file or a table of one field and one record
EarlierFiles ==
    {<<>>,
     ForeignFile(<<ForeignField(1)>>, <<[flag |-> SP, kind |-> "a"]>>, FALSE, 0)}

----------------------------------------------------------------------------
(* The operations.                                                         *)

Idle == [stage |-> "idle"]

Init ==
    /\ disk = <<>>
    /\ origin = "none"
    /\ wr = Idle
    /\ rd = Idle
    /\ alt = Idle
    /\ codec = Idle
    /\ conv = Idle
    /\ rdbf = Idle
    /\ cdx = Idle

\* nothing has been called yet
Fresh ==
    /\ origin = "none"
    /\ wr.stage = "idle"
    /\ codec.stage = "idle"
    /\ conv.stage = "idle"
    /\ rdbf.stage = "idle"
    /\ cdx.stage = "idle"

\* d = DBFFieldDescriptor(...); d.to_bytes()
Encode ==
    /\ Fresh
    /\ \E n \in CodecNames, t \in CodecTypes, l \in CodecLengths, c \in CodecDecimals :
         \E d \in {DBFFieldDescriptor(n, t, l, c)} :
           codec' = [stage |-> "encoded", d |-> d, enc |-> to_bytes(d)]
    /\ UNCHANGED <<disk, origin, wr, rd, alt, conv, rdbf, cdx>>

\* DBFFieldDescriptor.from_bytes(d.to_bytes())
Decode ==
    /\ codec.stage = "encoded"
    /\ codec.enc.exc = "none"
    /\ codec' = [stage |-> "decoded", d |-> codec.d, enc |-> codec.enc,
                 dec |-> from_bytes(codec.enc.val)]
    /\ UNCHANGED <<disk, origin, wr, rd, alt, conv, rdbf, cdx>>

\* one raw field value through both converters
Convert ==
    /\ Fresh
    /\ \E data \in ConvData, t \in ConvTypes, c \in ConvDecimals :
         conv' = [stage |-> "done", data |-> data, field_type |-> t,
                  decimal_count |-> c,
                  out |-> _convert_field_value(data, t, c),
                  safe |-> convert_field_value_safe(data, t, c)]
    /\ UNCHANGED <<disk, origin, wr, rd, alt, codec, rdbf, cdx>>

\* the path holds a file before any of the operations
Earlier ==
    /\ Fresh
    /\ \E file \in EarlierFiles :
         /\ disk' = file
         /\ origin' = "earlier"
    /\ UNCHANGED <<wr, rd, alt, codec, conv, rdbf, cdx>>

\* DBFWriter(path).write(df, field_specs), the path absent or holding an
\* earlier file
Write ==
    /\ Fresh \/ (origin = "earlier" /\ wr.stage = "idle" /\ rd.stage = "idle"
                                   /\ alt.stage = "idle" /\ rdbf.stage = "idle")
    /\ \E df \in Tables, today \in Todays :
         \E field_specs \in FieldSpecs(df) :
           \E w \in {DBFWriter_write(df, field_specs, today, disk)} :
             /\ wr' = [stage |-> "done", df |-> df, field_specs |-> field_specs,
                       today |-> today, out |-> w]
             /\ disk' = w.file
             /\ origin' = IF w.opened THEN "writer" ELSE origin
    /\ UNCHANGED <<rd, alt, codec, conv, rdbf, cdx>>

\* a file made by other software is put at the path
PutFile ==
    /\ Fresh
    /\ \E file \in ForeignFiles \cup OverstatedFiles \cup UndatedFiles :
         /\ disk' = file
         /\ origin' = "foreign"
    /\ UNCHANGED <<wr, rd, alt, codec, conv, rdbf, cdx>>

\* a file of many records is put at the path
PutLongFile ==
    /\ Fresh
    /\ \E file \in LongFiles \cup JunkLongFiles :
         /\ disk' = file
         /\ origin' = "long"
    /\ UNCHANGED <<wr, rd, alt, codec, conv, rdbf, cdx>>

\* CDXReader(path) for a path that holds an index file or nothing
MakeIndexReader ==
    /\ Fresh
    /\ \E exists \in BOOLEAN :
         \E file \in (IF exists THEN CdxFiles ELSE {<<>>}) :
           cdx' = [stage |-> "made", exists |-> exists, file |-> file,
                   self |-> CDXReader, reads |-> 0]
    /\ UNCHANGED <<disk, origin, wr, rd, alt, codec, conv, rdbf>>

\* reader.read() of the index reader, again and again
ReadIndex ==
    /\ cdx.stage \in {"made", "read"}
    /\ cdx.reads < MaxReads
    /\ \E r \in {CDXReader_read(cdx.self, cdx.exists, cdx.file)} :
         cdx' = [stage |-> "read", exists |-> cdx.exists, file |-> cdx.file,
                 self |-> r.self, reads |-> cdx.reads + 1, out |-> r]
    /\ UNCHANGED <<disk, origin, wr, rd, alt, codec, conv, rdbf>>

\* DBFReader(path).read()
Read ==
    /\ origin # "none"
    /\ rd.stage = "idle"
    /\ \E r \in {DBFReader_read_on(DBFReader, disk)} :
         rd' = [stage |-> "done", out |-> r.out, self |-> r.self]
    /\ UNCHANGED <<disk, origin, wr, alt, codec, conv, rdbf, cdx>>

\* the file at the path is replaced after the object's first read
Replace ==
    /\ origin = "foreign"
    /\ rd.stage = "done"
    /\ \E file \in ReplacementFiles \ {disk} :
         /\ disk' = file
         /\ origin' = "replaced"
    /\ UNCHANGED <<wr, rd, alt, codec, conv, rdbf, cdx>>

\* a second read() on the object of the first
ReadAgain ==
    /\ rd.stage = "done"
    /\ \E r \in {DBFReader_read_on(rd.self, disk)} :
         rd' = [stage |-> "again", first |-> rd.out, out |-> r.out, self |-> r.self]
    /\ UNCHANGED <<disk, origin, wr, alt, codec, conv, rdbf, cdx>>

\* DBFReader(path).read(use_index), the companion index file absent or present
ReadUsingIndex ==
    /\ origin = "foreign"
    /\ cdx.stage = "idle"
    /\ rdbf.stage = "idle"
    /\ \E exists \in BOOLEAN, use_index \in UseIndexes :
         \E cdx_file \in (IF exists THEN CompanionFiles ELSE {<<>>}) :
           cdx' = [stage |-> "sorted", exists |-> exists, file |-> cdx_file,
                   use_index |-> use_index,
                   out |-> DBFReader_read_use_index(disk, exists, cdx_file, use_index)]
    /\ UNCHANGED <<disk, origin, wr, rd, alt, codec, conv, rdbf>>

\* read_dbf_alternative(path)
Alternative ==
    /\ origin # "none"
    /\ alt.stage = "idle"
    /\ alt' = [stage |-> "done", out |-> read_dbf_alternative(disk)]
    /\ UNCHANGED <<disk, origin, wr, rd, codec, conv, rdbf, cdx>>

\* read_dbf(path, debug): the try block, up to its return or to the handler
ReadDbf ==
    /\ rdbf.stage = "idle"
    /\ \E debug \in BOOLEAN :
         \E t \in {read_dbf_try(origin # "none", disk, debug)} :
           rdbf' = IF ExceptionCaught(t)
                   THEN [stage |-> "except", debug |-> debug, primary |-> t]
                   ELSE [stage |-> "returned", debug |-> debug, primary |-> t,
                         result |-> t.df]
    /\ UNCHANGED <<disk, origin, wr, rd, alt, codec, conv, cdx>>

\* read_dbf: the exception reaches the handler, which calls read_dbf_alternative
ReadDbfExcept ==
    /\ rdbf.stage = "except"
    /\ rdbf' = [stage |-> "alternative", debug |-> rdbf.debug, primary |-> rdbf.primary]
    /\ UNCHANGED <<disk, origin, wr, rd, alt, codec, conv, cdx>>

\* read_dbf: read_dbf_alternative runs, up to the return of its table or to the
\* exception it lets out
ReadDbfAlternative ==
    /\ rdbf.stage = "alternative"
    /\ \E a \in {read_dbf_except(origin # "none", disk)} :
         rdbf' = IF a.exc = "none"
                 THEN [stage |-> "returned", debug |-> rdbf.debug,
                       primary |-> rdbf.primary, fallback |-> a, result |-> a.df]
                 ELSE [stage |-> "raised", debug |-> rdbf.debug,
                       primary |-> rdbf.primary, fallback |-> a]
    /\ UNCHANGED <<disk, origin, wr, rd, alt, codec, conv, cdx>>

NextCodec == Encode \/ Decode \/ Convert
NextWrite == Earlier \/ Write \/ Read \/ Alternative
NextRead == PutFile \/ PutLongFile \/ Read \/ Alternative
NextIndex == MakeIndexReader \/ ReadIndex
NextSorted == PutFile \/ Read \/ ReadUsingIndex \/ MakeIndexReader \/ ReadIndex
NextAgain == PutFile \/ Read \/ Replace \/ ReadAgain
NextReadDbf == PutFile \/ PutLongFile \/ ReadDbf \/ ReadDbfExcept \/ ReadDbfAlternative
NextFallback == PutFile \/ ReadDbf \/ ReadDbfExcept \/ ReadDbfAlternative
Next ==
    \/ Encode \/ Decode \/ Convert \/ Earlier \/ Write \/ PutFile \/ PutLongFile \/ Read
    \/ Alternative
    \/ ReadDbf \/ ReadDbfExcept \/ ReadDbfAlternative
    \/ MakeIndexReader \/ ReadIndex \/ ReadUsingIndex
    \/ Replace \/ ReadAgain

SpecCodec == Init /\ [][NextCodec]_vars
SpecWrite == Init /\ [][NextWrite]_vars
SpecRead == Init /\ [][NextRead]_vars
SpecIndex == Init /\ [][NextIndex]_vars
SpecSorted == Init /\ [][NextSorted]_vars
SpecAgain == Init /\ [][NextAgain]_vars
SpecReadDbf == Init /\ [][NextReadDbf]_vars
Spec == Init /\ [][Next]_vars

\* read_dbf: an exception of the try block always reaches the handler
SpecFallback == Init /\ [][NextFallback]_vars /\ WF_vars(ReadDbfExcept)

----------------------------------------------------------------------------
(* The claims.                                                             *)

\* the three counts a file's header stores
StoredRecordCount(file) == unpack_L(Slice(file, 4, 8))
StoredHeaderLength(file) == unpack_H(Slice(file, 8, 10))
StoredRecordLength(file) == unpack_H(Slice(file, 10, 12))

Written == origin = "writer" /\ wr.stage = "done" /\ wr.out.exc = "none"

\* the table a frame of the writer's input reads back as: names and values
FrameOf(df) == [i \in 1..Len(df) |-> [k |-> df[i].k, v |-> df[i].v]]

\* every cell of the table holds a value
NoAbsentValue(df) == \A c \in 1..Len(df) : \A r \in 1..Len(df[c].v) : df[c].v[r] # None

\* C1 (as claimed): a table without absent values written with inferred
\* specifications (every name at most 10 ASCII characters, every value fitting
\* its field) is read back by DBFReader.read without error, with the same
\* column names in the same order, the same number of rows and the same values.
C1_RoundTrip ==
    (Written /\ wr.field_specs.none /\ NoAbsentValue(wr.df) /\ rd.stage = "done")
        => /\ rd.out.exc = "none"
           /\ rd.out.df = FrameOf(wr.df)

\* C2: in every file the writer wrote, the header_length stored at bytes 8-9 is
\* 32 + 32 * len(fields) + 1 and the record_length stored at bytes 10-11 is
\* 1 + the sum of the field lengths.
C2_HeaderInvariant ==
    (origin = "writer" /\ Len(disk) >= 12)
        => /\ StoredHeaderLength(disk) = 32 + 32 * Len(wr.out.fields) + 1
           /\ StoredRecordLength(disk) = 1 + SumLengths(wr.out.fields, 1)

\* C2 witness: a file written for three fields of explicit widths.
C2_Witness ==
    /\ Written
    /\ ~wr.field_specs.none
    /\ Len(wr.out.fields) = 3
    /\ StoredRecordLength(disk) > 1

\* C3 (as claimed): in every written file the header occupies 32 bytes (the
\* first descriptor's name starts at offset 32), the terminator is at offset
\* header_length - 1, and the records start at offset header_length: what
\* follows it is record_count records of record_length bytes and one end byte.
C3_HeaderLengthIsDataOffset ==
    Written
        => /\ Slice(disk, 32, 43) = wr.out.fields[1].name
           /\ Len(disk) >= StoredHeaderLength(disk)
           /\ disk[StoredHeaderLength(disk)] = TERMINATOR
           /\ Len(disk) - StoredHeaderLength(disk)
                = StoredRecordCount(disk) * StoredRecordLength(disk) + 1

\* C4 (as claimed): in every written file descriptor i (0-based) is the 32
\* bytes at offset 32 + 32 * i, name in bytes 0-10, type in byte 11, length in
\* byte 16, decimal_count in byte 17, and the reader's descriptor phase
\* recovers exactly the written descriptors.
C4_DescriptorLayout ==
    Written
        => /\ \A i \in 1..Len(wr.out.fields) :
                LET slot == Slice(disk, 32 + 32 * (i - 1), 32 + 32 * i)
                    field == wr.out.fields[i]
                IN  /\ Len(slot) = 32
                    /\ Slice(slot, 0, 11) = field.name
                    /\ <<slot[12]>> = field.field_type
                    /\ slot[17] = field.length
                    /\ slot[18] = field.decimal_count
           /\ rd.stage = "done"
                => rd.out.exc = "none" /\ rd.out.fields = wr.out.fields

\* C5 (as claimed): to_bytes returns exactly 32 bytes, and from_bytes of them
\* succeeds with the same name, type, length and decimal_count.
C5_CodecRoundTrip ==
    /\ codec.stage \in {"encoded", "decoded"}
         => codec.enc.exc = "none" /\ Len(codec.enc.val) = 32
    /\ codec.stage = "decoded"
         => codec.dec.exc = "none" /\ codec.dec.val = codec.d

\* how many records a reader that starts at offset start and reads at most cap
\* records reads whole
CompleteRecords(file, start, cap) ==
    IF StoredRecordLength(file) = 0 \/ Len(file) < start THEN 0
    ELSE Min(Min(StoredRecordCount(file), cap),
             (Len(file) - start) \div StoredRecordLength(file))

\* record number r (from 1) of the file
RecordAt(file, start, r) ==
    Slice(file, start + (r - 1) * StoredRecordLength(file),
          start + r * StoredRecordLength(file))

\* the numbers of the whole records whose first byte is not "*", in file order
LiveRecords(file, start, safe) ==
    SelectSeq([r \in 1..CompleteRecords(file, start,
                                        IF safe THEN record_cap
                                        ELSE StoredRecordCount(file)) |-> r],
              LAMBDA r : RecordAt(file, start, r)[1] # STAR)

\* what the first field of the live records converts to, in file order, with
\* the converter of the reader (safe: that of read_dbf_alternative)
FirstColumn(file, start, fields, safe) ==
    [j \in 1..Len(LiveRecords(file, start, safe)) |->
        LET field_data == Slice(RecordAt(file, start, LiveRecords(file, start, safe)[j]),
                                1, 1 + fields[1].length)
        IN  IF safe
            THEN convert_field_value_safe(field_data, fields[1].field_type,
                                          fields[1].decimal_count).val
            ELSE _convert_field_value(field_data, fields[1].field_type,
                                      fields[1].decimal_count).val]

\* the rows of a frame are those of the live whole records, in file order
RowsAreLiveRecords(out, start, safe) ==
    /\ Height(out.df) = Len(LiveRecords(disk, start, safe))
    /\ out.fields # <<>> /\ LiveRecords(disk, start, safe) # <<>>
         => out.df[1].v = FirstColumn(disk, start, out.fields, safe)

ReadOk == origin = "foreign" /\ rd.stage = "done" /\ rd.out.exc = "none"
AltOk == origin = "foreign" /\ alt.stage = "done" /\ alt.out.exc = "none"

C7_ConversionNeverRaises ==
    conv.stage = "done" => conv.out.exc = "none"

\* C8 (as claimed): read_dbf_alternative returns a table for every input of at
\* least 32 bytes.
C8_RecoveryNeverRaises ==
    (alt.stage = "done" /\ Len(disk) >= 32) => alt.out.exc = "none"

\* the data section ends inside a record the header counts
TruncatedMidRecord(file) ==
    /\ Len(file) > StoredHeaderLength(file)
    /\ StoredRecordLength(file) > 0
    /\ (Len(file) - StoredHeaderLength(file)) % StoredRecordLength(file) # 0
    /\ (Len(file) - StoredHeaderLength(file)) \div StoredRecordLength(file)
         < StoredRecordCount(file)

\* C9 (as claimed): on a file truncated inside record k, DBFReader.read returns
\* without raising the live records among the k - 1 whole ones, in order.
C9_TruncatedFileTolerated ==
    (origin = "foreign" /\ rd.stage = "done" /\ TruncatedMidRecord(disk))
        => /\ rd.out.exc = "none"
           /\ RowsAreLiveRecords(rd.out, StoredHeaderLength(disk), FALSE)

\* the text is exactly 8 decimal digits YYYYMMDD that name a calendar date
IsDateText(s) ==
    /\ Len(s) = 8
    /\ \A i \in 1..8 : IsDigit(s[i])
    /\ DateOf(s).exc = "none"

\* C10 (as claimed): a D field decodes to a date exactly when its trimmed
\* content is 8 decimal digits naming a calendar date, and to the absent value
\* otherwise, never raising.
C10_DateDecoding ==
    (conv.stage = "done" /\ conv.field_type = TypeD)
        => /\ conv.out.exc = "none"
           /\ conv.out.val = IF IsDateText(strip(conv.data))
                             THEN DateOf(strip(conv.data)).val ELSE None

\* read_dbf_alternative has been called by read_dbf; it has returned or raised
FallbackInvoked == rdbf.stage = "alternative" \/ "fallback" \in DOMAIN rdbf
FallbackRan == "fallback" \in DOMAIN rdbf

DeclaredFields(file) == (StoredHeaderLength(file) - 33) \div 32

\* the first byte of descriptor slot k (from 0) of a file, -1 beyond its end
SlotStart(file, k) == IF 32 + 32 * k < Len(file) THEN file[32 + 32 * k + 1] ELSE -1

\* the declared slots that begin with the terminator
TerminatorSlots(file) ==
    {k \in 0..(DeclaredFields(file) - 1) : SlotStart(file, k) = TERMINATOR}

\* the first of them
EarlyTerminator(file) ==
    CHOOSE k \in TerminatorSlots(file) : \A j \in TerminatorSlots(file) : k <= j

\* C12: when a descriptor slot DBFReader reads begins with 0x0D although the
\* header declares more fields, the descriptor phase ends there without error
\* and the field list is exactly the decoded slots before it.
C12_EarlyTerminator ==
    (/\ origin = "foreign" /\ rd.stage = "done"
     /\ Len(disk) >= 32 /\ StoredHeaderLength(disk) >= 33
     /\ TerminatorSlots(disk) # {})
        => /\ rd.out.step \in {"records", "done"}
           /\ rd.out.fields =
                [i \in 1..EarlyTerminator(disk) |->
                    from_bytes(Slice(disk, 32 * i, 32 * i + 32)).val]

\* C12 witness: a file that declares three fields and holds one was read; the
\* table has the one column and a row.
C12_Witness ==
    /\ ReadOk
    /\ DeclaredFields(disk) = 3
    /\ EarlyTerminator(disk) = 1
    /\ Len(rd.out.fields) = 1
    /\ Height(rd.out.df) >= 1

\* the bytes the writer puts before the first record
HeaderSection ==
    Len(_write_field_descriptors(
            wr.out.fields, 1,
            _write_header(Height(wr.df), Len(wr.out.fields), wr.out.record_length,
                          wr.today).val).out)

\* the bytes of row r as _write_records writes them
WrittenRecord(r) == WriteRow(wr.df, r, wr.out.fields, 1, <<SP>>).out

\* C13 (as claimed): every record the writer writes is record_length bytes, for
\* every field type, so a written file is the header section, record_count *
\* record_length record bytes and one final 0x1A.
C13_RecordSectionSize ==
    Written
        => /\ \A r \in 1..Height(wr.df) : Len(WrittenRecord(r)) = wr.out.record_length
           /\ Len(disk) = HeaderSection + Height(wr.df) * wr.out.record_length + 1
           /\ disk[Len(disk)] = EOF_MARK

\* the cell of row r the writer formats for field number i
CellOf(r, i) == RowGet(wr.df, r, rstripNul(wr.out.fields[i].name))

\* the text of a number formatted for an N or F field, <<>> when the value
\* does not convert
NumberText(value, field) ==
    IF field.field_type = TypeN /\ field.decimal_count = 0
    THEN Let(int(value), LAMBDA x : IF x.exc = "none" THEN IntText(x.val) ELSE <<>>)
    ELSE Let(float(value), LAMBDA x :
             IF x.exc = "none" THEN FixedText(x.val, field.decimal_count) ELSE <<>>)

\* a value whose formatted text is longer than the N or F field it goes into
TooLong(value, field) ==
    /\ field.field_type \in {TypeN, TypeF}
    /\ value # None
    /\ Len(NumberText(value, field)) > field.length

\* C14 (as claimed): a value whose formatted text is longer than its N or F
\* field is written as exactly `length` spaces, without raising.
C14_OverflowBlankFill ==
    (origin = "writer" /\ wr.stage = "done")
        => \A r \in 1..Height(wr.df) : \A i \in 1..Len(wr.out.fields) :
             TooLong(CellOf(r, i), wr.out.fields[i])
                => _format_field_value(CellOf(r, i), wr.out.fields[i])
                     = Ok(Repeat(SP, wr.out.fields[i].length))

\* C15 (as claimed): formatting returns bytes for every field type and every
\* cell value, and the write of a table with rows completes without raising.
C15_FormattingNeverAborts ==
    (origin = "writer" /\ wr.stage = "done")
        => /\ \A r \in 1..Height(wr.df) : \A i \in 1..Len(wr.out.fields) :
                _format_field_value(CellOf(r, i), wr.out.fields[i]).exc = "none"
           /\ wr.out.exc = "none"

\* a step that is DBFWriter.write of a table with no rows
WriteOfEmptyTable == wr.stage = "idle" /\ wr'.stage = "done" /\ Height(wr'.df) = 0

\* C16: write of a table with no rows raises ValueError before the file is
\* opened: an absent path stays absent and a file at the path keeps its bytes.
C16_EmptyTableRejected ==
    [][WriteOfEmptyTable
         => /\ wr'.out.exc = "ValueError"
            /\ ~wr'.out.opened
            /\ origin' = origin
            /\ disk' = disk]_vars

\* C16 witness: the write of an empty table was rejected and the table file an
\* earlier run left at the path is still there.
C16_Witness ==
    /\ wr.stage = "done"
    /\ Height(wr.df) = 0
    /\ wr.out.exc = "ValueError"
    /\ origin = "earlier"
    /\ Len(disk) > 32

\* C17 (as claimed): the table DBFReader.read returns has one column per
\* parsed descriptor, in descriptor order, each with one entry per retained
\* record, whatever the number of retained records.
C17_OneColumnPerField ==
    ReadOk
        => /\ Len(rd.out.df) = Len(rd.out.fields)
           /\ \A i \in 1..Len(rd.out.fields) :
                i <= Len(rd.out.df)
                   => /\ rd.out.df[i].k = rstripNul(rd.out.fields[i].name)
                      /\ Len(rd.out.df[i].v) = Len(rd.out.records)

\* C18 (as claimed): where _convert_field_value returns without raising,
\* convert_field_value_safe returns the same result; where it raises,
\* convert_field_value_safe returns the absent value.
C18_SameConversionTable ==
    conv.stage = "done"
        => IF conv.out.exc = "none" THEN conv.safe = conv.out
           ELSE conv.safe = Ok(None)

\* C19: read_dbf_alternative reads at most 1000 records, deleted ones
\* included, so its table has at most 1000 rows: the rows of a file are no more
\* than the live records among its first 1000.
C19_RecoveryRecordCap ==
    (alt.stage = "done" /\ alt.out.exc = "none")
        => /\ Height(alt.out.df) <= record_cap
           /\ Len(alt.out.records)
                <= Len(LiveRecords(disk, StoredHeaderLength(disk), TRUE))

\* C19 witness: a file of more than 1000 records, the first deleted, was read:
\* the table has the 999 live records among the first 1000 and not the one
\* after them.
C19_Witness ==
    /\ origin = "long"
    /\ alt.stage = "done"
    /\ StoredRecordCount(disk) > record_cap
    /\ disk[StoredHeaderLength(disk) + 1] = STAR
    /\ Height(alt.out.df) = record_cap - 1

\* C20 (as claimed): CDXReader.read raises FileNotFoundError exactly when the
\* file does not exist; for every file that exists, of any length and content,
\* it returns without raising.
C20_IndexReadTolerant ==
    cdx.stage = "read"
        => /\ cdx.out.exc = "FileNotFoundError" <=> ~cdx.exists
           /\ cdx.exists => cdx.out.exc = "none"

\* the indexes an index read enumerated
EnumeratedIndexes ==
    IF cdx.stage = "read" /\ cdx.out.exc = "none" THEN cdx.out.val.indexes
    ELSE IF cdx.stage = "sorted" /\ cdx.out.cdx_info # None THEN cdx.out.cdx_info.indexes
    ELSE <<>>

IntegerTypes ==
    {"Int8", "Int16", "Int32", "Int64", "UInt8", "UInt16", "UInt32", "UInt64"}

\* the specification the inference is to give a column
InferredAsSpecified(col) ==
    IF col.dtype = "String"
    THEN [type |-> TypeC,
          length |-> IF MaxLenChars(col.v, 1) <= 0 THEN 10
                     ELSE Min(MaxLenChars(col.v, 1), 254),
          decimal |-> 0]
    ELSE IF col.dtype \in IntegerTypes THEN [type |-> TypeN, length |-> 18, decimal |-> 0]
    ELSE IF col.dtype \in {"Float32", "Float64"}
    THEN [type |-> TypeF, length |-> 20, decimal |-> 6]
    ELSE IF col.dtype = "Boolean" THEN [type |-> TypeL, length |-> 1, decimal |-> 0]
    ELSE IF col.dtype = "Date" THEN [type |-> TypeD, length |-> 8, decimal |-> 0]
    ELSE [type |-> TypeC, length |-> 50, decimal |-> 0]

\* C22 (as claimed): without field specifications every column gets the field
\* of its type: string C of the longest string (at most 254, 10 when there is
\* none), every integer type N 18.0, float F 20.6, boolean L 1, date D 8, any
\* other type C 50.
C22_FieldSpecInference ==
    (wr.stage = "done" /\ wr.field_specs.none /\ "fields" \in DOMAIN wr.out)
        => \A i \in 1..Len(wr.df) :
             /\ wr.out.fields[i].field_type = InferredAsSpecified(wr.df[i]).type
             /\ wr.out.fields[i].length = InferredAsSpecified(wr.df[i]).length
             /\ wr.out.fields[i].decimal_count = InferredAsSpecified(wr.df[i]).decimal

\* C23: a second read() on the same object returns what read() on a new object
\* returns for the file then at the path, so with the file unchanged it returns
\* what the first call returned: the lists of the earlier call are not seen
C23_RepeatedReadSameTable ==
    rd.stage = "again"
        => /\ rd.out = DBFReader_read(disk)
           /\ origin # "replaced" => rd.out = rd.first

\* the earlier call parsed other numbers of fields and records than the later
C23_Witness ==
    /\ rd.stage = "again" /\ origin = "replaced"
    /\ rd.first.step = "done" /\ rd.out.step = "done"
    /\ Len(rd.first.fields) > Len(rd.out.fields) /\ rd.out.fields # <<>>
    /\ Len(rd.first.records) > Len(rd.out.records) /\ rd.out.records # <<>>

\* the offset just after the slots of the fields collected by the read at hand
AfterCollected == 32 + 32 * Len(rd.out.fields)

\* the descriptor phase of the read at hand ended and left a stream position
DescriptorPhaseDone == rd.stage = "done" /\ rd.out.step \in {"records", "done"}

\* C24 (as claimed): when the byte after the last collected descriptor is the
\* terminator, record parsing starts at the byte after it, whatever the records
\* hold; when the search finds no terminator, it starts at 32 + 32*len(fields) + 1
C24_RecordsStartAfterTerminator ==
    DescriptorPhaseDone
        => /\ (Len(disk) > AfterCollected /\ disk[AfterCollected + 1] = TERMINATOR)
                 => rd.out.data_pos = AfterCollected + 1
           /\ ~TerminatorScan(disk, DescriptorLoop(disk, 32, 0,
                                  (rd.out.header.header_length - 33) \div 32, <<>>).pos,
                              max_search).found
                 => rd.out.data_pos = AfterCollected + 1

\* chunk k (from 0) of the descriptor area: it begins before header_length - 1,
\* is complete, does not start with the terminator and has a non-empty
\* printable name
GoodChunk(file, k) ==
    /\ 32 + 32 * k < StoredHeaderLength(file) - 1
    /\ 32 + 32 * k + 32 <= Len(file)
    /\ file[32 + 32 * k + 1] # TERMINATOR
    /\ Let(decodeIgnore(rstripNul(Slice(file, 32 + 32 * k, 32 + 32 * k + 11))),
           LAMBDA name : name # <<>> /\ isprintable(name))

\* the length of the longest prefix of good chunks
GoodPrefix(file) ==
    CHOOSE n \in 0..(Len(file) \div 32) :
        /\ \A k \in 0..(n - 1) : GoodChunk(file, k)
        /\ ~GoodChunk(file, n)

\* C25 (as claimed): the recovery walk collects the longest prefix of good
\* chunks, the first other chunk ends it without an exception, and record
\* reading starts at header_length wherever the walk stopped
C25_RecoveryWalk ==
    (alt.stage = "done" /\ Len(disk) >= 32)
        => /\ alt.out.exc = "none"
           /\ Len(alt.out.fields) = GoodPrefix(disk)
           /\ alt.out.data_pos = StoredHeaderLength(disk)

\* C26 (as claimed): the header step fails only on a file of fewer than 32
\* bytes, and whatever the last-update bytes 1-3 are, read() gives what it gives
\* for the same file with the date 2024-02-29 in them
C26_DateBytesIgnored ==
    rd.stage = "done"
        => /\ rd.out.step = "header" => Len(disk) < 32
           /\ rd.out = DBFReader_read(Redated(disk, 124, 2, 29))

\* the sum of the length bytes of the first n descriptor slots
RECURSIVE SlotLengths(_, _)
SlotLengths(file, n) ==
    IF n = 0 THEN 0 ELSE file[32 + 32 * (n - 1) + 17] + SlotLengths(file, n - 1)

\* a whole file: a 32-byte header, at least one 32-byte descriptor, the
\* terminator where header_length says, the record length the sum of the field
\* lengths plus one, and every record the header counts
WellFormed(file) ==
    /\ Len(file) >= 32
    /\ StoredHeaderLength(file) >= 65
    /\ (StoredHeaderLength(file) - 33) % 32 = 0
    /\ Len(file) >= StoredHeaderLength(file)
                        + StoredRecordCount(file) * StoredRecordLength(file)
    /\ file[StoredHeaderLength(file)] = TERMINATOR
    /\ \A k \in 0..((StoredHeaderLength(file) - 33) \div 32 - 1) :
           file[32 + 32 * k + 1] # TERMINATOR
    /\ StoredRecordLength(file)
           = 1 + SlotLengths(file, (StoredHeaderLength(file) - 33) \div 32)

\* read_dbf returned or let an exception out
ReadDbfEnded == rdbf.stage \in {"returned", "raised"}

\* C27 (as claimed): for a whole, well-formed file read_dbf returns a table
\* with one row for every record whose first byte is not "*", whatever the
\* fields hold and however many records there are
C27_NoRowLoss ==
    (ReadDbfEnded /\ origin \in {"foreign", "long"} /\ WellFormed(disk))
        => /\ rdbf.stage = "returned"
           /\ Height(rdbf.result)
                 = Len(LiveRecords(disk, StoredHeaderLength(disk), FALSE))

\* row r as the claim has it: the flag, then for every column the formatted
\* value of the column's cell in that row
RowOfCells(r) ==
    <<SP>> \o Concat([i \in 1..Len(wr.df) |->
                         _format_field_value(wr.df[i].v[r], wr.out.fields[i]).val], 1)

\* C28 (as claimed): the records of a written file hold, for every column of
\* the table, also one whose name is longer than 10 characters, the formatted
\* value of the column's cell in each row
C28_ValuesUnderEveryColumn ==
    Written
        => /\ Len(wr.out.fields) = Len(wr.df)
           /\ SliceFrom(disk, HeaderSection)
                 = Concat([r \in 1..Height(wr.df) |-> RowOfCells(r)], 1) \o <<EOF_MARK>>

\* both readers were run on the file and each returned a table with rows
BothTables ==
    /\ rd.stage = "done" /\ rd.out.exc = "none" /\ Height(rd.out.df) > 0
    /\ alt.stage = "done" /\ alt.out.exc = "none" /\ Height(alt.out.df) > 0

\* C29 (as claimed): the tables of DBFReader.read and of read_dbf_alternative
\* have the same column names in the same order, each a field name without its
\* null padding
C29_SameColumnNames ==
    BothTables
        => /\ Columns(rd.out.df) = Columns(alt.out.df)
           /\ \A i \in 1..Len(alt.out.df) :
                \E j \in 1..Len(alt.out.fields) :
                    alt.out.df[i].k = rstripNul(alt.out.fields[j].name)

\* C30 (as claimed): a later read() on the same CDXReader over the same index
\* file returns the list of indexes the first read() on the object returned
C30_IndexReadRepeatable ==
    (cdx.stage = "read" /\ cdx.reads > 1 /\ cdx.out.exc = "none")
        => cdx.out.val.indexes
             = CDXReader_read(CDXReader, cdx.exists, cdx.file).val.indexes

====
